---- MODULE Spec2Model ----
(***************************************************************************)
(* Model of the Reddit review pipeline of src/app/api/reddit/route.ts:     *)
(* the GET handler (cache-first read, token exchange, post fetching,       *)
(* filtering, deduplication, ranking, classification, cache upsert) and    *)
(* the pure functions it calls.                                            *)
(*                                                                         *)
(* Text is modelled as a sequence of one-character strings, so that        *)
(* toLowerCase, includes, split and the regular expressions of the source  *)
(* are computed on characters.                                             *)
(***************************************************************************)
EXTENDS Integers, Sequences, FiniteSets, TLC

VARIABLES
    cache,          \* public.reviews: the rows of the table, in storage order
    credentials,    \* REDDIT_CLIENT_ID and REDDIT_CLIENT_SECRET are both set
    pc,             \* position of the GET handler
    invocations,    \* number of GET invocations started so far
    forceRefresh,   \* searchParams.get("refresh") === "true"
    cachedReviews,  \* rows the cache read returned, NULL before it and on error
    page,           \* loop counter of the primary listing loop
    after,          \* continuation cursor of the primary listing loop
    sec,            \* index into secondarySubreddits of the next search
    allPosts,       \* posts accumulated by fetchRedditPosts
    posts,          \* value returned by fetchRedditPosts
    reviews,        \* result of the Promise.all classification
    thrown,         \* message of the exception the catch block caught, or NULL
    response,       \* the NextResponse of the current invocation, or NoResponse
    calls,          \* upstream requests issued by the current invocation
    outcome,        \* how the latest upstream request ended, or NULL
    delayed,        \* the 200 ms timer ran out after the latest upstream request
    dbCalls,        \* cache store operations issued by the current invocation
    prev,           \* the previous invocation (Record), or NoRecord
    other,          \* the local state of a concurrent invocation that waits, or NoOther
    units,          \* Promise.all: the value of each classification unit, or Pending
    uiReviews,      \* page.tsx: the reviews state of the dashboard
    loading,        \* page.tsx: the loading state
    error,          \* page.tsx: the error state, NULL for null
    selectedDate,   \* page.tsx: the selected date, in seconds
    activeFilter,   \* page.tsx: label of the active quick filter, or Custom
    sortBy,         \* page.tsx: date or sentiment
    sortOrder,      \* page.tsx: asc or desc
    currentPage,    \* page.tsx: page index of the review list
    actionablePage, \* page.tsx: page index of the actionable list
    pending,        \* a fetch of the dashboard awaits its response
    apiRequests     \* URLs the dashboard has requested from the API endpoint

vars == <<cache, credentials, pc, invocations, forceRefresh, cachedReviews, page,
          after, sec, allPosts, posts, reviews, thrown, response, calls, outcome,
          delayed, dbCalls, prev, other, units, uiReviews, loading, error, selectedDate, activeFilter,
          sortBy, sortOrder, currentPage, actionablePage, pending, apiRequests>>

\* no concurrent invocation
NoOther == [pc |-> "none"]

NULL == "NULL"

-----------------------------------------------------------------------------
(* Text *)

UpperCase == <<"A", "B", "C", "D", "E", "F", "G", "H", "I", "J", "K", "L", "M", "N", "O", "P", "Q", "R", "S", "T", "U", "V", "W", "X", "Y", "Z">>
LowerCase == <<"a", "b", "c", "d", "e", "f", "g", "h", "i", "j", "k", "l", "m", "n", "o", "p", "q", "r", "s", "t", "u", "v", "w", "x", "y", "z">>
Digit == {"0", "1", "2", "3", "4", "5", "6", "7", "8", "9"}
WhiteSpace == {" ", "\n", "\t"}

\* String.prototype.toLowerCase on one character
LowerChar(c) ==
    IF \E i \in 1..Len(UpperCase) : UpperCase[i] = c
    THEN LowerCase[CHOOSE i \in 1..Len(UpperCase) : UpperCase[i] = c]
    ELSE c

toLowerCase(s) == [i \in 1..Len(s) |-> LowerChar(s[i])]

\* String.prototype.includes
includes(s, w) ==
    \E i \in 1..(Len(s) - Len(w) + 1) : SubSeq(s, i, i + Len(w) - 1) = w

\* String.prototype.trim
trim(s) ==
    IF \A i \in 1..Len(s) : s[i] \in WhiteSpace
    THEN <<>>
    ELSE LET first == CHOOSE i \in 1..Len(s) :
                         /\ s[i] \notin WhiteSpace
                         /\ \A j \in 1..(i - 1) : s[j] \in WhiteSpace
             last == CHOOSE i \in 1..Len(s) :
                         /\ s[i] \notin WhiteSpace
                         /\ \A j \in (i + 1)..Len(s) : s[j] \in WhiteSpace
         IN SubSeq(s, first, last)

\* content.split(/\s+/).length: one piece more than there are maximal runs
\* of white space (empty leading and trailing pieces are counted by split)
SplitLength(s) ==
    1 + Cardinality({i \in 1..Len(s) :
                        /\ s[i] \in WhiteSpace
                        /\ (i = 1 \/ s[i - 1] \notin WhiteSpace)})

-----------------------------------------------------------------------------
(* Regular expressions: an alternation is a set of branches, a branch a   *)
(* sequence of items [cls, q], cls the set of characters the item accepts *)
(* and q its quantifier (one, star, plus).                                *)

Lit(w) == [i \in 1..Len(w) |-> [cls |-> {w[i]}, q |-> "one"]]
Star(cls) == <<[cls |-> cls, q |-> "star"]>>
Plus(cls) == <<[cls |-> cls, q |-> "plus"]>>

RECURSIVE MatchFrom(_, _, _, _)
\* items k.. of the branch match a prefix of s[i..]
MatchFrom(branch, k, s, i) ==
    IF k > Len(branch) THEN TRUE
    ELSE LET it == branch[k]
             here == i <= Len(s) /\ s[i] \in it.cls
         IN CASE it.q = "one"  -> here /\ MatchFrom(branch, k + 1, s, i + 1)
              [] it.q = "star" -> \/ MatchFrom(branch, k + 1, s, i)
                                  \/ here /\ MatchFrom(branch, k, s, i + 1)
              [] it.q = "plus" -> here /\ (\/ MatchFrom(branch, k, s, i + 1)
                                           \/ MatchFrom(branch, k + 1, s, i + 1))

\* String.prototype.match / RegExp.prototype.test without the i flag:
\* the expression matches somewhere in s
match(s, re) ==
    \E branch \in re : \E i \in 1..(Len(s) + 1) : MatchFrom(branch, 1, s, i)

\* the same with the i flag (every expression of the source is lower-case)
matchI(s, re) == match(toLowerCase(s), re)

-----------------------------------------------------------------------------
(* categorizePost *)

ReMotoG == {Lit(<<"m", "o", "t", "o">>) \o Star(WhiteSpace) \o Lit(<<"g">>) \o Plus(Digit),
            Lit(<<"m", "o", "t", "o", "g">>) \o Plus(Digit),
            Lit(<<"m", "o", "t", "o", " ", "g", " ", "s", "e", "r", "i", "e", "s">>)}
ReEdge == {Lit(<<"e", "d", "g", "e">>) \o Star(WhiteSpace) \o Plus(Digit),
           Lit(<<"m", "o", "t", "o", " ", "e", "d", "g", "e">>), Lit(<<"m", "o", "t", "o", "r", "o", "l", "a", " ", "e", "d", "g", "e">>)}
ReRazr == {Lit(<<"r", "a", "z", "r">>), Lit(<<"f", "l", "i", "p">>), Lit(<<"f", "o", "l", "d", "a", "b", "l", "e">>)}
ReAudio == {Lit(<<"b", "u", "d", "s">>), Lit(<<"h", "e", "a", "d", "p", "h", "o", "n", "e">>), Lit(<<"e", "a", "r", "b", "u", "d", "s">>), Lit(<<"a", "u", "d", "i", "o">>),
            Lit(<<"s", "p", "e", "a", "k", "e", "r">>)}
ReSmartHome == {Lit(<<"s", "m", "a", "r", "t", " ", "h", "o", "m", "e">>), Lit(<<"h", "u", "b">>), Lit(<<"m", "o", "n", "i", "t", "o", "r">>)}
ReAccessories == {Lit(<<"c", "h", "a", "r", "g", "e", "r">>), Lit(<<"c", "a", "s", "e">>), Lit(<<"a", "c", "c", "e", "s", "s", "o", "r", "y">>),
                  Lit(<<"s", "c", "r", "e", "e", "n", " ", "p", "r", "o", "t", "e", "c", "t", "o", "r">>)}
ReBattery == {Lit(<<"b", "a", "t", "t", "e", "r", "y">>), Lit(<<"c", "h", "a", "r", "g", "i", "n", "g">>), Lit(<<"p", "o", "w", "e", "r">>)}
ReCamera == {Lit(<<"c", "a", "m", "e", "r", "a">>), Lit(<<"p", "h", "o", "t", "o">>), Lit(<<"v", "i", "d", "e", "o">>)}
ReSoftware == {Lit(<<"s", "o", "f", "t", "w", "a", "r", "e">>), Lit(<<"u", "p", "d", "a", "t", "e">>), Lit(<<"a", "n", "d", "r", "o", "i", "d">>), Lit(<<"u", "i">>)}

\* mutant: the battery rule tested first
CategoryRulesBatteryFirst ==
    << [re |-> ReBattery,     label |-> "Battery/Charging"],
       [re |-> ReMotoG,       label |-> "Moto G Series"],
       [re |-> ReEdge,        label |-> "Moto Edge Series"],
       [re |-> ReRazr,        label |-> "Moto Razr/Foldable"],
       [re |-> ReAudio,       label |-> "Audio Products"],
       [re |-> ReSmartHome,   label |-> "Smart Home"],
       [re |-> ReAccessories, label |-> "Accessories"],
       [re |-> ReCamera,      label |-> "Camera"],
       [re |-> ReSoftware,    label |-> "Software/Updates"] >>

\* the ordered rule list of categorizePost
CategoryRules ==
    << [re |-> ReMotoG,       label |-> "Moto G Series"],
       [re |-> ReEdge,        label |-> "Moto Edge Series"],
       [re |-> ReRazr,        label |-> "Moto Razr/Foldable"],
       [re |-> ReAudio,       label |-> "Audio Products"],
       [re |-> ReSmartHome,   label |-> "Smart Home"],
       [re |-> ReAccessories, label |-> "Accessories"],
       [re |-> ReBattery,     label |-> "Battery/Charging"],
       [re |-> ReCamera,      label |-> "Camera"],
       [re |-> ReSoftware,    label |-> "Software/Updates"] >>

categorizePost(title, text, subreddit) ==
    LET content == toLowerCase(title \o <<" ">> \o text)
        hits == {k \in 1..Len(CategoryRules) : matchI(content, CategoryRules[k].re)}
    IN IF hits = {} THEN "General"
       ELSE CategoryRules[CHOOSE k \in hits : \A j \in hits : k <= j].label

-----------------------------------------------------------------------------
(* simpleAnalyzeSentiment *)

positiveWords ==
    << <<"g", "r", "e", "a", "t">>, <<"a", "m", "a", "z", "i", "n", "g">>, <<"e", "x", "c", "e", "l", "l", "e", "n", "t">>, <<"l", "o", "v", "e">>, <<"p", "e", "r", "f", "e", "c", "t">>, <<"a", "w", "e", "s", "o", "m", "e">>,
       <<"f", "a", "n", "t", "a", "s", "t", "i", "c">>, <<"g", "o", "o", "d">>, <<"b", "e", "s", "t">>, <<"i", "m", "p", "r", "e", "s", "s", "e", "d">>, <<"r", "e", "c", "o", "m", "m", "e", "n", "d">>, <<"s", "o", "l", "i", "d">>,
       <<"h", "a", "p", "p", "y">>, <<"s", "a", "t", "i", "s", "f", "i", "e", "d">>, <<"b", "e", "a", "u", "t", "i", "f", "u", "l">>, <<"s", "m", "o", "o", "t", "h">>, <<"f", "a", "s", "t">>, <<"r", "e", "l", "i", "a", "b", "l", "e">>,
       <<"w", "o", "r", "t", "h">>, <<"u", "p", "g", "r", "a", "d", "e">> >>

\* mutant: the singular "issue" in the list
negativeWordsWithIssue ==
    << <<"t", "e", "r", "r", "i", "b", "l", "e">>, <<"a", "w", "f", "u", "l">>, <<"h", "a", "t", "e">>, <<"w", "o", "r", "s", "t">>, <<"b", "a", "d">>, <<"h", "o", "r", "r", "i", "b", "l", "e">>,
       <<"d", "i", "s", "a", "p", "p", "o", "i", "n", "t", "e", "d">>, <<"b", "r", "o", "k", "e", "n">>, <<"i", "s", "s", "u", "e">>, <<"p", "r", "o", "b", "l", "e", "m">>, <<"f", "a", "i", "l", "e", "d">>, <<"u", "s", "e", "l", "e", "s", "s">>,
       <<"g", "a", "r", "b", "a", "g", "e">>, <<"o", "v", "e", "r", "h", "e", "a", "t", "i", "n", "g">>, <<"s", "l", "o", "w">>, <<"l", "a", "g">>, <<"c", "r", "a", "s", "h">>, <<"b", "u", "g", "g", "y">>,
       <<"d", "e", "f", "e", "c", "t">>, <<"r", "e", "g", "r", "e", "t">> >>

negativeWords ==
    << <<"t", "e", "r", "r", "i", "b", "l", "e">>, <<"a", "w", "f", "u", "l">>, <<"h", "a", "t", "e">>, <<"w", "o", "r", "s", "t">>, <<"b", "a", "d">>, <<"h", "o", "r", "r", "i", "b", "l", "e">>,
       <<"d", "i", "s", "a", "p", "p", "o", "i", "n", "t", "e", "d">>, <<"b", "r", "o", "k", "e", "n">>, <<"i", "s", "s", "u", "e", "s">>, <<"p", "r", "o", "b", "l", "e", "m">>, <<"f", "a", "i", "l", "e", "d">>, <<"u", "s", "e", "l", "e", "s", "s">>,
       <<"g", "a", "r", "b", "a", "g", "e">>, <<"o", "v", "e", "r", "h", "e", "a", "t", "i", "n", "g">>, <<"s", "l", "o", "w">>, <<"l", "a", "g">>, <<"c", "r", "a", "s", "h">>, <<"b", "u", "g", "g", "y">>,
       <<"d", "e", "f", "e", "c", "t">>, <<"r", "e", "g", "r", "e", "t">> >>

\* words.filter((word) => content.includes(word)).length
KeywordCount(words, content) ==
    Cardinality({k \in 1..Len(words) : includes(content, words[k])})

Min(a, b) == IF a < b THEN a ELSE b
Max(a, b) == IF a > b THEN a ELSE b

\* Math.round((sentimentWords / Math.max(totalWords / 10, 1)) * 100) on the
\* non-negative rationals: 100 * sentimentWords when totalWords <= 10, else
\* 1000 * sentimentWords / totalWords rounded half up
RoundedDensity(sentimentWords, totalWords) ==
    IF totalWords <= 10
    THEN sentimentWords * 100
    ELSE (2 * 1000 * sentimentWords + totalWords) \div (2 * totalWords)

\* mutant: the larger count wins, whatever the margin
simpleAnalyzeSentimentNoMargin(title, text) ==
    LET content == toLowerCase(title \o <<" ">> \o text)
        positiveCount == KeywordCount(positiveWords, content)
        negativeCount == KeywordCount(negativeWords, content)
        confidence == Min(RoundedDensity(positiveCount + negativeCount, SplitLength(content)), 95)
    IN [sentiment |-> IF positiveCount > negativeCount THEN "positive"
                      ELSE IF negativeCount > positiveCount THEN "negative"
                      ELSE "neutral",
        confidence |-> Max(confidence, 40),
        reasoning |-> <<"Mixed or neutral sentiment indicators">>]

\* mutant: the confidence without its ceiling of 95
simpleAnalyzeSentimentUnclamped(title, text) ==
    LET content == toLowerCase(title \o <<" ">> \o text)
        positiveCount == KeywordCount(positiveWords, content)
        negativeCount == KeywordCount(negativeWords, content)
        confidence == RoundedDensity(positiveCount + negativeCount, SplitLength(content))
    IN [sentiment |-> IF positiveCount > negativeCount + 1 THEN "positive"
                      ELSE IF negativeCount > positiveCount + 1 THEN "negative"
                      ELSE "neutral",
        confidence |-> Max(confidence, 40),
        reasoning |-> <<"Mixed or neutral sentiment indicators">>]

simpleAnalyzeSentiment(title, text) ==
    LET content == toLowerCase(title \o <<" ">> \o text)
        positiveCount == KeywordCount(positiveWords, content)
        negativeCount == KeywordCount(negativeWords, content)
        totalWords == SplitLength(content)
        sentimentWords == positiveCount + negativeCount
        confidence == Min(RoundedDensity(sentimentWords, totalWords), 95)
    IN IF positiveCount > negativeCount + 1
       THEN [sentiment |-> "positive", confidence |-> Max(confidence, 40),
             reasoning |-> <<"Found", positiveCount, "positive indicators">>]
       ELSE IF negativeCount > positiveCount + 1
       THEN [sentiment |-> "negative", confidence |-> Max(confidence, 40),
             reasoning |-> <<"Found", negativeCount, "negative indicators">>]
       ELSE [sentiment |-> "neutral", confidence |-> Max(confidence, 40),
             reasoning |-> <<"Mixed or neutral sentiment indicators">>]

analyzeSentiment(title, text) == simpleAnalyzeSentiment(title, text)

-----------------------------------------------------------------------------
(* Upstream posts (RedditPost) the Reddit API may serve *)

PostA1 == [id |-> "a", title |-> <<"M", "o", "t", "o", " ", "G", "5", " ", "b", "a", "t", "t", "e", "r", "y">>, selftext |-> <<>>,
           subreddit |-> <<"m", "o", "t", "o", "r", "o", "l", "a">>, ups |-> 1, num_comments |-> 0,
           permalink |-> "/r/motorola/a", created_utc |-> 60]
\* the same post seen later, with more engagement
PostA2 == [PostA1 EXCEPT !.ups = 7, !.num_comments = 2]
PostB1 == [id |-> "b", title |-> <<"N", "e", "w", " ", "p", "h", "o", "n", "e">>, selftext |-> <<"l", "o", "v", "e", " ", "m", "y", " ", "R", "a", "z", "r">>,
           subreddit |-> <<"A", "n", "d", "r", "o", "i", "d">>, ups |-> 9, num_comments |-> 3,
           permalink |-> "/r/Android/b", created_utc |-> 120]
\* the same post after its author emptied the body
PostB2 == [PostB1 EXCEPT !.selftext = <<>>, !.num_comments = 4]
PostD == [id |-> "d", title |-> <<"H", "e", "l", "p", "?">>, selftext |-> <<"b", "a", "d", " ", "u", "p", "d", "a", "t", "e", ",", " ", "i", "s", "s", "u", "e", "s">>,
          subreddit |-> <<"M", "o", "t", "o", "r", "o", "l", "a">>, ups |-> 3, num_comments |-> 3,
          permalink |-> "/r/Motorola/d", created_utc |-> 86400]
\* a post whose JSON lacks created_utc
PostE == [id |-> "e", title |-> <<"L", "e", "n", "o", "v", "o", " ", "d", "e", "a", "l">>, selftext |-> <<" ">>,
          subreddit |-> <<"L", "e", "n", "o", "v", "o">>, ups |-> 2, num_comments |-> 0,
          permalink |-> "/r/Lenovo/e"]

\* what the upstream API may serve to fetchRedditPosts run on its own
PostPool == {PostA1, PostA2, PostB1, PostB2, PostD}
\* what it may serve to a GET invocation
GetPool == {PostA1, PostE}

primarySubreddit == "motorola"
\* mutant: the secondary channels in another order
secondarySubredditsReordered == <<"Android", "MotoG", "smartphones", "Lenovo">>
secondarySubreddits == <<"MotoG", "Android", "smartphones", "Lenovo">>
pagesToFetch == 8
MaxResults == 990
SummaryLength == 250

\* post.subreddit.toLowerCase() === "motorola"
IsPrimary(post) == toLowerCase(post.subreddit) = <<"m", "o", "t", "o", "r", "o", "l", "a">>

\* sequences over S of length at most n
RECURSIVE SeqsUpTo(_, _)
SeqsUpTo(S, n) ==
    IF n = 0 THEN {<<>>}
    ELSE LET shorter == SeqsUpTo(S, n - 1)
         IN shorter \cup {Append(s, x) : s \in {t \in shorter : Len(t) = n - 1}, x \in S}

Last(s) == s[Len(s)]

-----------------------------------------------------------------------------
(* fetchRedditPosts: filter, deduplication, ranking *)

ReProductLine == {Lit(<<"m", "o", "t", "o">>) \o Star(WhiteSpace) \o Lit(<<"g">>), Lit(<<"e", "d", "g", "e">>),
                  Lit(<<"r", "a", "z", "r">>)}

\* mutant: the product-line pattern is not tried
IsRelevantBrandOnly(post) ==
    LET content == toLowerCase(post.title \o <<" ">> \o post.selftext)
    IN \/ IsPrimary(post)
       \/ includes(content, <<"m", "o", "t", "o", "r", "o", "l", "a">>)
       \/ includes(content, <<"m", "o", "t", "o">>)
       \/ includes(content, <<"l", "e", "n", "o", "v", "o">>)

\* the predicate of allPosts.filter
IsRelevant(post) ==
    LET content == toLowerCase(post.title \o <<" ">> \o post.selftext)
    IN \/ IsPrimary(post)
       \/ includes(content, <<"m", "o", "t", "o", "r", "o", "l", "a">>)
       \/ includes(content, <<"m", "o", "t", "o">>)
       \/ includes(content, <<"l", "e", "n", "o", "v", "o">>)
       \/ matchI(content, ReProductLine)

\* mutant: the first post of an identifier is kept
UniqueByIdFirst(s) ==
    LET IsFirst(i) == \A j \in 1..(i - 1) : s[j].id # s[i].id
        firsts == SelectSeq([i \in 1..Len(s) |-> i], IsFirst)
    IN [k \in 1..Len(firsts) |-> s[firsts[k]]]

\* Array.from(new Map(s.map((post) => [post.id, post])).values()): a key
\* keeps the position of its first entry and the value of its last one
UniqueById(s) ==
    LET IsFirst(i) == \A j \in 1..(i - 1) : s[j].id # s[i].id
        firsts == SelectSeq([i \in 1..Len(s) |-> i], IsFirst)
        LastOf(id) == CHOOSE i \in 1..Len(s) :
                          /\ s[i].id = id
                          /\ \A j \in (i + 1)..Len(s) : s[j].id # id
    IN [k \in 1..Len(firsts) |-> s[LastOf(s[firsts[k]].id)]]

\* allPosts.filter(...) is SelectSeq
uniquePosts(fetched) == UniqueById(SelectSeq(fetched, IsRelevant))

\* mutant: engagement alone
ComparePostsByEngagement(a, b) == b.ups + b.num_comments - (a.ups + a.num_comments)

\* mutant: engagement in ascending order within a tier
ComparePostsAscending(a, b) ==
    IF IsPrimary(a) /\ ~IsPrimary(b) THEN -1
    ELSE IF IsPrimary(b) /\ ~IsPrimary(a) THEN 1
    ELSE a.ups + a.num_comments - (b.ups + b.num_comments)

\* the comparator of uniquePosts.sort
ComparePosts(a, b) ==
    IF IsPrimary(a) /\ ~IsPrimary(b) THEN -1
    ELSE IF IsPrimary(b) /\ ~IsPrimary(a) THEN 1
    ELSE b.ups + b.num_comments - (a.ups + a.num_comments)

\* a is moved in front of b when the comparator is negative
PostBefore(a, b) == ComparePosts(a, b) < 0

\* uniquePosts.sort((a, b) => ...): Array.prototype.sort is stable, and so
\* is SortSeq, which places each element in front of the elements it is
\* before and after the others
SortPosts(s) == SortSeq(s, PostBefore)

\* Array.prototype.slice(0, n)
Slice(s, n) == SubSeq(s, 1, Min(Len(s), n))

\* the value fetchRedditPosts returns for the accumulated posts
RankedPosts(fetched) == Slice(SortPosts(uniquePosts(fetched)), MaxResults)

-----------------------------------------------------------------------------
(* GET: classification of the fetched posts *)

ReQuestion == {Lit(<<"?">>), Lit(<<"h", "o", "w", " ", "t", "o">>), Lit(<<"h", "e", "l", "p">>), Lit(<<"i", "s", "s", "u", "e">>),
               Lit(<<"p", "r", "o", "b", "l", "e", "m">>), Lit(<<"w", "h", "y">>), Lit(<<"w", "h", "a", "t">>), Lit(<<"w", "h", "e", "n">>),
               Lit(<<"w", "h", "e", "r", "e">>), Lit(<<"w", "h", "i", "c", "h">>)}

hasQuestion(post) == matchI(post.title \o <<" ">> \o post.selftext, ReQuestion)

\* new Date(created_utc * 1000).toISOString(), as the fields of the ISO
\* string <<year, month, day, hour, minute, second, millisecond>>; the
\* calendar arithmetic covers January 1970, where the model's posts lie
toISOString(ms) ==
    <<1970, 1, 1 + ms \div 86400000, (ms \div 3600000) % 24, (ms \div 60000) % 60,
      (ms \div 1000) % 60, ms % 1000>>

Summary(selftext) ==
    IF selftext = <<>>
    THEN <<"N", "o", " ", "d", "e", "s", "c", "r", "i", "p", "t", "i", "o", "n", " ", "a", "v", "a", "i", "l", "a", "b", "l", "e">>
    ELSE trim(SubSeq(selftext, 1, Min(Len(selftext), SummaryLength)))
           \o (IF Len(selftext) > SummaryLength THEN <<".", ".", ".">> ELSE <<>>)

\* the object one unit of the Promise.all builds for posts[index]
Review(post, index) ==
    LET sentimentAnalysis == analyzeSentiment(post.title, post.selftext)
    IN [id |-> index,
        title |-> post.title,
        summary |-> Summary(post.selftext),
        category |-> categorizePost(post.title, post.selftext, post.subreddit),
        sentiment |-> sentimentAnalysis.sentiment,
        confidence |-> sentimentAnalysis.confidence,
        reasoning |-> sentimentAnalysis.reasoning,
        upvotes |-> post.ups,
        comments |-> post.num_comments,
        redditUrl |-> <<"https://reddit.com", post.permalink>>,
        createdAt |-> toISOString(post.created_utc * 1000),
        subreddit |-> post.subreddit,
        hasQuestion |-> hasQuestion(post),
        redditId |-> post.id,
        fullContent |-> post.selftext]

\* new Date(undefined * 1000) is an invalid date, and toISOString throws a
\* RangeError for it
ClassificationThrows(ranked) ==
    \E i \in 1..Len(ranked) : "created_utc" \notin DOMAIN ranked[i]

Classified(ranked) == [i \in 1..Len(ranked) |-> Review(ranked[i], i)]

\* mutant: the confidence is stored as the classifier gives it
Div100Unscaled(n) == [num |-> n, den |-> 1]

\* review.confidence / 100, kept as the exact fraction
Div100(n) == [num |-> n, den |-> 100]

reviewsToStore(classified) ==
    [i \in 1..Len(classified) |->
        LET review == classified[i]
        IN [id |-> review.redditId,
            title |-> review.title,
            content |-> review.fullContent,
            author |-> "reddit_user",
            subreddit |-> review.subreddit,
            url |-> review.redditUrl,
            upvotes |-> review.upvotes,
            comments |-> review.comments,
            sentiment |-> review.sentiment,
            confidence |-> Div100(review.confidence),
            category |-> review.category,
            has_question |-> review.hasQuestion,
            created_at |-> review.createdAt]]

\* reviews.map(({ redditId, fullContent, hasQuestion, ...review }) => ...)
apiReviews(classified) ==
    [i \in 1..Len(classified) |->
        [f \in DOMAIN classified[i] \ {"redditId", "fullContent"} |-> classified[i][f]]]

-----------------------------------------------------------------------------
(* Cache store: the reviews table *)

\* mutant: a stored row wins over a new row of the same id
RECURSIVE UpsertKeepingStored(_, _)
UpsertKeepingStored(table, rows) ==
    IF rows = <<>> THEN table
    ELSE LET row == Head(rows)
             merged == IF \E i \in 1..Len(table) : table[i].id = row.id
                       THEN table
                       ELSE Append(table, row)
         IN UpsertKeepingStored(merged, Tail(rows))

\* mutant: insert without conflict resolution
UpsertAppending(table, rows) == table \o rows

\* upsert(rows, { onConflict: "id" }): a row replaces the stored row of the
\* same id, and is appended when there is none
RECURSIVE Upsert(_, _)
Upsert(table, rows) ==
    IF rows = <<>> THEN table
    ELSE LET row == Head(rows)
             merged == IF \E i \in 1..Len(table) : table[i].id = row.id
                       THEN [i \in 1..Len(table) |->
                                IF table[i].id = row.id THEN row ELSE table[i]]
                       ELSE Append(table, row)
         IN Upsert(merged, Tail(rows))

\* lexicographic order of two ISO field tuples: -1, 0 or 1
RECURSIVE CompareTime(_, _)
CompareTime(a, b) ==
    IF a = <<>> THEN 0
    ELSE IF Head(a) < Head(b) THEN -1
    ELSE IF Head(a) > Head(b) THEN 1
    ELSE CompareTime(Tail(a), Tail(b))

\* .order("created_at", { ascending: false })
NewestFirst(a, b) == CompareTime(b.created_at, a.created_at)

\* the store sorts the rows; rows of equal created_at keep their storage order
InsertRow(sorted, x) ==
    LET older == {i \in 1..Len(sorted) : NewestFirst(sorted[i], x) > 0}
        at == IF older = {} THEN Len(sorted) + 1
              ELSE CHOOSE i \in older : \A j \in older : i <= j
    IN SubSeq(sorted, 1, at - 1) \o <<x>> \o SubSeq(sorted, at, Len(sorted))

SortRows(table) ==
    LET upTo[n \in 0..Len(table)] ==
            IF n = 0 THEN <<>> ELSE InsertRow(upTo[n - 1], table[n])
    IN upTo[Len(table)]

\* select("*").order("created_at", { ascending: false }).limit(990)
Select(table) == Slice(SortRows(table), MaxResults)

\* mutant: the cached confidence rescaled to the 0-100 range on read
CachedReviewRescaled(review, index) ==
    [id |-> index,
     title |-> review.title,
     summary |-> review.content,
     category |-> review.category,
     sentiment |-> review.sentiment,
     confidence |-> [review.confidence EXCEPT !.num = @ * 100],
     reasoning |-> <<"Cached analysis">>,
     upvotes |-> review.upvotes,
     comments |-> review.comments,
     redditUrl |-> review.url,
     createdAt |-> review.created_at,
     subreddit |-> review.subreddit,
     hasQuestion |-> review.has_question]

\* the cached row, transformed to the API format
CachedReview(review, index) ==
    [id |-> index,
     title |-> review.title,
     summary |-> review.content,
     category |-> review.category,
     sentiment |-> review.sentiment,
     confidence |-> review.confidence,
     reasoning |-> <<"Cached analysis">>,
     upvotes |-> review.upvotes,
     comments |-> review.comments,
     redditUrl |-> review.url,
     createdAt |-> review.created_at,
     subreddit |-> review.subreddit,
     hasQuestion |-> review.has_question]

CachedReviews(rows) == [i \in 1..Len(rows) |-> CachedReview(rows[i], i)]

-----------------------------------------------------------------------------
(* The dashboard of src/app/page.tsx: state, filters, sorting, pages *)

dashboard == <<uiReviews, loading, error, selectedDate, activeFilter, sortBy, sortOrder,
               currentPage, actionablePage, pending, apiRequests>>

REVIEWS_PER_PAGE == 51
ACTIONABLE_PER_PAGE == 6

quickFilters ==
    << [label |-> "Today", days |-> 0], [label |-> "Yesterday", days |-> 1],
       [label |-> "Last 7 Days", days |-> 7], [label |-> "This Month", days |-> 30] >>

\* Dates are counted in seconds (the dates of reviews are whole seconds) and
\* the browser's time zone is taken to be UTC.
DaySeconds == 86400
\* new Date() while the dashboard is open: 10 January 1970, 12:00
Now == 9 * DaySeconds + 12 * 3600

\* setHours(0, 0, 0, 0) and setHours(23, 59, 59, 999) on a date
StartOfDay(date) == date - (date % DaySeconds)
EndOfDay(date) == StartOfDay(date) + DaySeconds - 1
\* setDate(getDate() - days)
DaysBefore(date, days) == date - days * DaySeconds

\* new Date(createdAt).getTime() for the ISO fields toISOString produces
getTime(iso) ==
    (iso[3] - 1) * DaySeconds + iso[4] * 3600 + iso[5] * 60 + iso[6]

\* Math.ceil(n / d) for n >= 0 and d > 0
Ceil(n, d) == (n + d - 1) \div d

questionKeywords ==
    <<<<"h", "e", "l", "p">>, <<"h", "o", "w", " ", "t", "o">>, <<"w", "h", "y">>, <<"i", "s", "s", "u", "e">>, <<"p", "r", "o", "b", "l", "e", "m">>, <<"t", "r", "o", "u", "b", "l", "e", "s", "h", "o", "o", "t">>,
      <<"a", "n", "y", "o", "n", "e", " ", "k", "n", "o", "w">>>>

detectQuestion(title, summary) ==
    LET text == toLowerCase(title \o <<" ">> \o summary)
    IN \/ includes(title, <<"?">>)
       \/ \E k \in 1..Len(questionKeywords) : includes(text, questionKeywords[k])
       \/ includes(text, <<"q", "u", "e", "s", "t", "i", "o", "n">>)

\* data.reviews.map((review) => ({ ...review, createdAt: ..., isQuestion: ... }))
enhancedReviews(list) ==
    [i \in 1..Len(list) |->
        [f \in DOMAIN list[i] \cup {"isQuestion"} |->
            IF f = "isQuestion" THEN detectQuestion(list[i].title, list[i].summary)
            ELSE list[i][f]]]

\* the predicate of the filter getFilteredReviews applies for activeFilter
InDateRange(review) ==
    LET reviewDate == getTime(review.createdAt)
        today == EndOfDay(Now)
    IN CASE activeFilter = "Today" ->
                reviewDate >= StartOfDay(today) /\ reviewDate <= EndOfDay(today)
         [] activeFilter = "Yesterday" ->
                /\ reviewDate >= StartOfDay(DaysBefore(today, 1))
                /\ reviewDate <= EndOfDay(DaysBefore(today, 1))
         [] activeFilter = "Last 7 Days" ->
                reviewDate >= StartOfDay(DaysBefore(today, 7)) /\ reviewDate <= today
         [] activeFilter = "This Month" ->
                reviewDate >= StartOfDay(DaysBefore(today, 30)) /\ reviewDate <= today
         [] OTHER ->
                reviewDate >= StartOfDay(selectedDate) /\ reviewDate <= EndOfDay(selectedDate)

sentimentOrder == [negative |-> 0, neutral |-> 1, positive |-> 2]

\* the comparator of the sort of getFilteredReviews
CompareReviews(a, b) ==
    IF sortBy = "date"
    THEN IF sortOrder = "asc" THEN getTime(a.createdAt) - getTime(b.createdAt)
         ELSE getTime(b.createdAt) - getTime(a.createdAt)
    ELSE IF sortOrder = "asc"
         THEN sentimentOrder[b.sentiment] - sentimentOrder[a.sentiment]
         ELSE sentimentOrder[a.sentiment] - sentimentOrder[b.sentiment]

\* a sorts in front of b
ReviewBefore(a, b) == CompareReviews(a, b) < 0

\* Array.prototype.sort is stable, as is SortSeq with a strict order:
\* elements that compare equal keep their order
SortReviews(s) == SortSeq(s, ReviewBefore)

getFilteredReviews == SortReviews(SelectSeq(uiReviews, InDateRange))

filteredReviews == getFilteredReviews

\* Array.prototype.slice(start, end) with 0 <= start
SliceFrom(s, start, end) == SubSeq(s, start + 1, Min(end, Len(s)))

totalPages == Ceil(Len(filteredReviews), REVIEWS_PER_PAGE)

\* mutant: the page index taken as zero-based
startIndexZeroBased == currentPage * REVIEWS_PER_PAGE

startIndex == (currentPage - 1) * REVIEWS_PER_PAGE
endIndex == startIndex + REVIEWS_PER_PAGE
paginatedReviews == SliceFrom(filteredReviews, startIndex, endIndex)
showPagination == Len(filteredReviews) > REVIEWS_PER_PAGE

\* mutant: a negative review counts 2 and a question 1
ActionableScoreNegativeFirst(review) ==
    (IF review.isQuestion THEN 1 ELSE 0) + (IF review.sentiment = "negative" THEN 2 ELSE 0)

\* the composite score of the sort of actionableReviews
ActionableScore(review) ==
    (IF review.isQuestion THEN 2 ELSE 0) + (IF review.sentiment = "negative" THEN 1 ELSE 0)

IsActionable(review) == review.isQuestion \/ review.sentiment = "negative"

\* the comparator (a, b) => scoreB - scoreA is negative
ActionableBefore(a, b) == ActionableScore(b) - ActionableScore(a) < 0

SortActionable(s) == SortSeq(s, ActionableBefore)

actionableReviews == SortActionable(SelectSeq(filteredReviews, IsActionable))

totalActionablePages == Ceil(Len(actionableReviews), ACTIONABLE_PER_PAGE)
actionableStartIndex == (actionablePage - 1) * ACTIONABLE_PER_PAGE
actionableEndIndex == actionableStartIndex + ACTIONABLE_PER_PAGE
paginatedActionableReviews ==
    SliceFrom(actionableReviews, actionableStartIndex, actionableEndIndex)
showActionablePagination == Len(actionableReviews) > ACTIONABLE_PER_PAGE

\* the numbers on the numbered page buttons
PageNumbers(current, total) ==
    {IF total <= 5 THEN i + 1
     ELSE IF current <= 3 THEN i + 1
     ELSE IF current >= total - 2 THEN total - 4 + i
     ELSE current - 2 + i : i \in 0..(Min(5, total) - 1)}

\* the state of the component before its mount effect has run
InitDashboard ==
    /\ uiReviews = <<>>
    /\ loading = TRUE
    /\ error = NULL
    /\ selectedDate = Now
    /\ activeFilter = "Today"
    /\ sortBy = "date"
    /\ sortOrder = "desc"
    /\ currentPage = 1
    /\ actionablePage = 1
    /\ pending = FALSE
    /\ apiRequests = <<>>

-----------------------------------------------------------------------------
(* Bounds of the model *)

\* posts one GET invocation may accumulate in allPosts
MaxPosts == 2
\* posts fetchRedditPosts run on its own may accumulate in allPosts
MaxFetched == 3
\* GET invocations in one behaviour
MaxInvocations == 2
\* phrases in the body of a post whose text is drawn from the vocabulary
MaxPhrases == 1
\* fetches one session of the dashboard may start
MaxFetches == 2
\* posts fetchRedditPosts may accumulate when every page has a post
MaxPaged == 8
\* accumulated posts of the small inputs of the ranking
MaxRanked == 3
\* posts each of two concurrent invocations may accumulate in allPosts
MaxShared == 1

-----------------------------------------------------------------------------
(* The GET handler *)

\* no response has been sent
NoResponse == [status |-> 0]

\* NextResponse.json({ reviews })
Success(list) == [status |-> 200, reviews |-> list]

\* mutant: the message of the exception is dropped
CatchResponseUnknown(message) ==
    [status |-> 500, error |-> "Failed to fetch Reddit data", details |-> "Unknown error"]

\* the catch block: status 500 and error.message as details
CatchResponse(message) ==
    [status |-> 500, error |-> "Failed to fetch Reddit data", details |-> message]

Call(kind, channel, cursor) == [kind |-> kind, channel |-> channel, after |-> cursor]

\* what a completed invocation leaves for the comparison with the next one
Record ==
    [invocation |-> invocations, forceRefresh |-> forceRefresh,
     cachedReviews |-> cachedReviews, response |-> response]

\* there was no invocation before
NoRecord == [invocation |-> 0]

\* a cache left by an earlier refresh that fetched these posts
CacheAfter(fetched) == Upsert(<<>>, reviewsToStore(Classified(RankedPosts(fetched))))

InitCaches == {<<>>, CacheAfter(<<PostA2>>), CacheAfter(<<PostB1, PostA2, PostD>>)}

Init ==
    /\ cache \in InitCaches
    /\ credentials \in BOOLEAN
    /\ pc = "idle"
    /\ invocations = 0
    /\ forceRefresh = FALSE
    /\ cachedReviews = NULL
    /\ page = 0
    /\ after = NULL
    /\ sec = 1
    /\ allPosts = <<>>
    /\ posts = <<>>
    /\ reviews = <<>>
    /\ thrown = NULL
    /\ response = NoResponse
    /\ calls = <<>>
    /\ outcome = NULL
    /\ dbCalls = <<>>
    /\ prev = NoRecord
    /\ delayed = FALSE
    /\ other = NoOther
    /\ units = <<>>
    /\ InitDashboard

\* a request arrives: GET is entered with or without refresh=true
Request(refresh) ==
    /\ pc \in {"idle", "responded"}
    /\ invocations < MaxInvocations
    /\ invocations' = invocations + 1
    /\ prev' = IF pc = "responded" THEN Record ELSE NoRecord
    /\ forceRefresh' = refresh
    /\ pc' = "createClient"
    /\ cachedReviews' = NULL
    /\ page' = 0
    /\ after' = NULL
    /\ sec' = 1
    /\ allPosts' = <<>>
    /\ posts' = <<>>
    /\ reviews' = <<>>
    /\ thrown' = NULL
    /\ response' = NoResponse
    /\ calls' = <<>>
    /\ outcome' = NULL
    /\ dbCalls' = <<>>
    /\ UNCHANGED <<cache, credentials>>
    /\ delayed' = FALSE
    /\ UNCHANGED <<other, units>>
    /\ UNCHANGED dashboard

\* an exception reaches the catch block of GET
Throw(message) ==
    /\ thrown' = message
    /\ response' = CatchResponse(message)
    /\ pc' = "responded"

\* mutant: the cache is read even when the refresh is forced
ReadsCacheAlways(refresh) == TRUE

\* if (!forceRefresh): the cache is read unless the refresh is forced
ReadsCache(refresh) == ~refresh

\* const supabase = await createClient(): the client, or an exception
CreateClient ==
    /\ pc = "createClient"
    /\ \/ /\ pc' = IF ReadsCache(forceRefresh) THEN "select" ELSE "token"
          /\ UNCHANGED <<thrown, response>>
       \/ Throw("createClient failed")
    /\ UNCHANGED <<cache, credentials, invocations, forceRefresh, cachedReviews, page,
                   after, sec, allPosts, posts, reviews, calls, outcome, dbCalls, prev>>
    /\ UNCHANGED delayed
    /\ UNCHANGED <<other, units>>
    /\ UNCHANGED dashboard

\* mutant: a single cached row does not count as a hit
CacheHitSeveral(fetchError, rows) == ~fetchError /\ ~(rows = NULL) /\ Len(rows) > 1

\* mutant: an empty result counts as a hit
CacheHitAnyRows(fetchError, rows) == ~fetchError /\ ~(rows = NULL)

\* if (!fetchError && cachedReviews && cachedReviews.length > 0)
CacheHit(fetchError, rows) == ~fetchError /\ ~(rows = NULL) /\ Len(rows) > 0

\* the cache read of the branch if (!forceRefresh): rows, or fetchError
CacheRead ==
    /\ pc = "select"
    /\ \E fetchError \in BOOLEAN :
          /\ cachedReviews' = IF fetchError THEN NULL ELSE Select(cache)
          /\ dbCalls' = Append(dbCalls, IF fetchError THEN "select failed" ELSE "select")
          /\ IF CacheHit(fetchError, cachedReviews')
             THEN /\ response' = Success(CachedReviews(cachedReviews'))
                  /\ pc' = "responded"
             ELSE /\ pc' = "token"
                  /\ UNCHANGED response
    /\ UNCHANGED <<cache, credentials, invocations, forceRefresh, page, after, sec,
                   allPosts, posts, reviews, thrown, calls, outcome, prev>>
    /\ UNCHANGED delayed
    /\ UNCHANGED <<other, units>>
    /\ UNCHANGED dashboard

\* mutant: response.ok of the token response is not tested
TokenErrorUnchecked(configured, result) ==
    IF ~configured THEN "Reddit credentials not configured"
    ELSE IF result = "throw" THEN "fetch failed"
    ELSE NULL

\* getRedditAccessToken: the message of the error it throws, NULL when it
\* returns the token
TokenError(configured, result) ==
    IF ~configured THEN "Reddit credentials not configured"
    ELSE IF result = "http" THEN "Failed to get Reddit access token"
    ELSE IF result = "throw" THEN "fetch failed"
    ELSE NULL

\* const accessToken = await getRedditAccessToken(): without credentials no
\* request is made; the request succeeds, is answered non-success, or fails
GetToken ==
    /\ pc = "token"
    /\ \E result \in {"ok", "http", "throw"} :
          /\ IF credentials
             THEN /\ calls' = Append(calls, Call("token", "access_token", NULL))
                  /\ outcome' = result
             ELSE /\ result = "ok"
                  /\ UNCHANGED <<calls, outcome>>
          /\ IF TokenError(credentials, result) # NULL
             THEN Throw(TokenError(credentials, result))
             ELSE pc' = "primary" /\ UNCHANGED <<thrown, response>>
    /\ UNCHANGED <<cache, credentials, invocations, forceRefresh, cachedReviews, page,
                   after, sec, allPosts, posts, reviews, dbCalls, prev>>
    /\ delayed' = FALSE
    /\ UNCHANGED <<other, units>>
    /\ UNCHANGED dashboard

\* reddit names a post t3_<id>; a listing returns the name of its last post
\* as the cursor, or none
Cursors(ps) == IF ps = <<>> THEN {NULL, "t3_"} ELSE {NULL, "t3_" \o Last(ps).id}

\* the pages the listing of the primary channel may return: at most room
\* posts of that channel, and a cursor
ListingPages(pool, room) ==
    UNION {{[posts |-> ps, after |-> c] : c \in Cursors(ps)} :
              ps \in SeqsUpTo({p \in pool : IsPrimary(p)}, room)}

\* the results a search may return: the query is not restricted to the
\* channel it is sent to
SearchResults(pool, room) == SeqsUpTo(pool, room)

\* mutant: the loop has no page budget
MorePagesUnbounded(data, pageNo) == ~(data.after = NULL \/ Len(data.posts) = 0)

\* mutant: the loop runs while page <= pagesToFetch
MorePagesOneBeyond(data, pageNo) ==
    /\ ~(data.after = NULL \/ Len(data.posts) = 0)
    /\ pageNo + 1 < pagesToFetch + 1

\* the loop goes on to another page: no break, and page + 1 < pagesToFetch
MorePages(data, pageNo) ==
    /\ ~(data.after = NULL \/ Len(data.posts) = 0)
    /\ pageNo + 1 < pagesToFetch

\* one iteration of the loop over the pages of the primary channel; page and
\* after go out of scope when the loop is left
PrimaryPage(pool, limit) ==
    /\ pc = "primary"
    /\ calls' = Append(calls, Call("listing", primarySubreddit, after))
    /\ \/ \E data \in ListingPages(pool, limit - Len(allPosts)) :
             /\ outcome' = "ok"
             /\ allPosts' = allPosts \o data.posts
             /\ delayed' = ~(data.after = NULL \/ Len(data.posts) = 0)
             /\ IF MorePages(data, page)
                THEN pc' = "primary" /\ page' = page + 1 /\ after' = data.after
                ELSE pc' = "secondary" /\ page' = 0 /\ after' = NULL
       \/ /\ outcome' \in {"http", "throw"}
          /\ pc' = "secondary" /\ page' = 0 /\ after' = NULL
          /\ delayed' = FALSE
          /\ UNCHANGED allPosts
    /\ UNCHANGED <<cache, credentials, invocations, forceRefresh, cachedReviews, sec,
                   posts, reviews, thrown, response, dbCalls, prev>>
    /\ UNCHANGED <<other, units>>
    /\ UNCHANGED dashboard

\* the timer of the loop over secondarySubreddits is awaited inside the try,
\* after the test of response.ok: it runs unless the request threw
Paced(result) == result # "throw"

\* mutant: a failed search ends the loop
AfterSearchAborting(index, result) ==
    IF index < Len(secondarySubreddits) /\ result = "ok" THEN "secondary" ELSE "rank"

\* where the loop over secondarySubreddits stands after the request to
\* channel number index ended with result
AfterSearch(index, result) ==
    IF index < Len(secondarySubreddits) THEN "secondary" ELSE "rank"

\* one iteration of the loop over secondarySubreddits
SecondarySearch(pool, limit) ==
    /\ pc = "secondary"
    /\ calls' = Append(calls, Call("search", secondarySubreddits[sec], NULL))
    /\ \/ \E found \in SearchResults(pool, limit - Len(allPosts)) :
             /\ outcome' = "ok"
             /\ allPosts' = allPosts \o found
       \/ /\ outcome' \in {"http", "throw"}
          /\ UNCHANGED allPosts
    /\ sec' = sec + 1
    /\ pc' = AfterSearch(sec, outcome')
    /\ UNCHANGED <<cache, credentials, invocations, forceRefresh, cachedReviews, page,
                   after, posts, reviews, thrown, response, dbCalls, prev>>
    /\ delayed' = Paced(outcome')
    /\ UNCHANGED <<other, units>>
    /\ UNCHANGED dashboard

\* fetchRedditPosts returns the filtered, deduplicated, ranked posts
FetchReturn ==
    /\ pc = "rank"
    /\ posts' = RankedPosts(allPosts)
    /\ pc' = "classify"
    /\ UNCHANGED <<cache, credentials, invocations, forceRefresh, cachedReviews, page,
                   after, sec, allPosts, reviews, thrown, response, calls, outcome,
                   dbCalls, prev>>
    /\ UNCHANGED delayed
    /\ UNCHANGED <<other, units>>
    /\ UNCHANGED dashboard

\* const reviews = await Promise.all(posts.map(...))
Classify ==
    /\ pc = "classify"
    /\ IF ClassificationThrows(posts)
       THEN /\ Throw("Invalid time value")
            /\ UNCHANGED reviews
       ELSE /\ reviews' = Classified(posts)
            /\ pc' = "upsert"
            /\ UNCHANGED <<thrown, response>>
    /\ UNCHANGED <<cache, credentials, invocations, forceRefresh, cachedReviews, page,
                   after, sec, allPosts, posts, calls, outcome, dbCalls, prev>>
    /\ UNCHANGED delayed
    /\ UNCHANGED <<other, units>>
    /\ UNCHANGED dashboard

\* mutant: insertError is returned to the caller
RefreshResponseSurfacing(insertError, classified) ==
    IF insertError THEN CatchResponse("upsert failed")
    ELSE Success(apiReviews(classified))

\* the response of the refresh path: insertError is logged, not returned
RefreshResponse(insertError, classified) == Success(apiReviews(classified))

\* the upsert of reviewsToStore, which the store performs or answers with
\* insertError, and the response of the refresh path
CacheWrite ==
    /\ pc = "upsert"
    /\ \E insertError \in BOOLEAN :
          /\ cache' = IF insertError THEN cache ELSE Upsert(cache, reviewsToStore(reviews))
          /\ dbCalls' = Append(dbCalls, IF insertError THEN "upsert failed" ELSE "upsert")
          /\ response' = RefreshResponse(insertError, reviews)
    /\ pc' = "responded"
    /\ UNCHANGED <<credentials, invocations, forceRefresh, cachedReviews, page, after,
                   sec, allPosts, posts, reviews, thrown, calls, outcome, prev>>
    /\ UNCHANGED delayed
    /\ UNCHANGED <<other, units>>
    /\ UNCHANGED dashboard

Next ==
    \/ \E refresh \in BOOLEAN : Request(refresh)
    \/ CreateClient
    \/ CacheRead
    \/ GetToken
    \/ PrimaryPage(GetPool, MaxPosts)
    \/ SecondarySearch(GetPool, MaxPosts)
    \/ FetchReturn
    \/ Classify
    \/ CacheWrite

\* GET invocations, one after the other
Spec == Init /\ [][Next]_vars

-----------------------------------------------------------------------------
(* fetchRedditPosts on its own, called with an access token *)

InitFetch ==
    /\ cache = <<>>
    /\ credentials = TRUE
    /\ pc = "primary"
    /\ invocations = 1
    /\ forceRefresh = TRUE
    /\ cachedReviews = NULL
    /\ page = 0
    /\ after = NULL
    /\ sec = 1
    /\ allPosts = <<>>
    /\ posts = <<>>
    /\ reviews = <<>>
    /\ thrown = NULL
    /\ response = NoResponse
    /\ calls = <<>>
    /\ outcome = NULL
    /\ dbCalls = <<>>
    /\ prev = NoRecord
    /\ delayed = FALSE
    /\ other = NoOther
    /\ units = <<>>
    /\ InitDashboard

NextFetch ==
    \/ PrimaryPage(PostPool, MaxFetched)
    \/ SecondarySearch(PostPool, MaxFetched)
    \/ FetchReturn

SpecFetch == InitFetch /\ [][NextFetch]_vars

-----------------------------------------------------------------------------
(* The filter, deduplication, ranking and truncation of fetchRedditPosts *)
(* on their own, applied to accumulated posts                            *)

\* post number i of a refresh that fills the page budget: eight pages of a
\* hundred posts of the primary channel, then the results of the searches;
\* a hot listing is nearly in the order of engagement
FetchedPost(i) ==
    [id |-> ToString(i),
     title |-> <<"M", "o", "t", "o", " ", "G">>,
     selftext |-> <<>>,
     subreddit |-> IF i <= pagesToFetch * 100 THEN <<"m", "o", "t", "o", "r", "o", "l", "a">>
                   ELSE <<"A", "n", "d", "r", "o", "i", "d">>,
     ups |-> IF i % 100 = 0 THEN 2000 ELSE 1000 - i, num_comments |-> i % 2,
     permalink |-> "/r/x/" \o ToString(i), created_utc |-> 60]

\* two posts more than the output may hold
BigFetch == [i \in 1..(MaxResults + 2) |-> FetchedPost(i)]

\* the accumulated posts the ranking is applied to
RankInputs == SeqsUpTo(PostPool, MaxRanked) \cup {BigFetch}

InitRank ==
    /\ cache = <<>>
    /\ credentials = TRUE
    /\ pc = "rank"
    /\ invocations = 1
    /\ forceRefresh = TRUE
    /\ cachedReviews = NULL
    /\ page = 0
    /\ after = NULL
    /\ sec = Len(secondarySubreddits) + 1
    /\ allPosts \in RankInputs
    /\ posts = <<>>
    /\ reviews = <<>>
    /\ thrown = NULL
    /\ response = NoResponse
    /\ calls = <<>>
    /\ outcome = NULL
    /\ dbCalls = <<>>
    /\ prev = NoRecord
    /\ delayed = FALSE
    /\ other = NoOther
    /\ units = <<>>
    /\ InitDashboard

NextRank == FetchReturn

SpecRank == InitRank /\ [][NextRank]_vars

-----------------------------------------------------------------------------
(* fetchRedditPosts against a primary channel that has a post for every *)
(* page of the budget                                                   *)

\* what the upstream API may serve
PagingPool == {PostD}

NextPaging ==
    \/ PrimaryPage(PagingPool, MaxPaged)
    \/ SecondarySearch(PagingPool, MaxPaged)
    \/ FetchReturn

SpecPaging == InitFetch /\ [][NextPaging]_vars

-----------------------------------------------------------------------------
(* One GET invocation against a primary channel that has a post for     *)
(* every page of the budget; every call that was made returns, so a     *)
(* step of the handler that can be taken is taken                       *)

\* a step of the handler after the request has arrived
HandlerStep ==
    \/ CreateClient
    \/ CacheRead
    \/ GetToken
    \/ PrimaryPage(PagingPool, MaxPaged)
    \/ SecondarySearch(PagingPool, MaxPaged)
    \/ FetchReturn
    \/ Classify
    \/ CacheWrite

\* one invocation has entered GET, with or without refresh=true
InitBudget ==
    /\ cache \in InitCaches
    /\ credentials \in BOOLEAN
    /\ pc = "createClient"
    /\ invocations = 1
    /\ forceRefresh \in BOOLEAN
    /\ cachedReviews = NULL
    /\ page = 0
    /\ after = NULL
    /\ sec = 1
    /\ allPosts = <<>>
    /\ posts = <<>>
    /\ reviews = <<>>
    /\ thrown = NULL
    /\ response = NoResponse
    /\ calls = <<>>
    /\ outcome = NULL
    /\ dbCalls = <<>>
    /\ prev = NoRecord
    /\ delayed = FALSE
    /\ other = NoOther
    /\ units = <<>>
    /\ InitDashboard

NextBudget == HandlerStep

\* where the invocation is: every step of the handler moves it
position == <<pc, page, sec>>

\* the call the invocation awaits returns and the handler goes on: a step
\* of the handler can be taken as long as it has not responded
Advance ==
    /\ pc # "responded"
    /\ pc' \in {"select", "token", "primary", "secondary", "rank", "classify", "upsert",
               "responded"}
    /\ page' \in 0..pagesToFetch
    /\ sec' \in 1..Len(secondarySubreddits)
    /\ position' # position

SpecBudget == InitBudget /\ [][NextBudget]_vars /\ WF_position(Advance)

-----------------------------------------------------------------------------
(* Two GET invocations with refresh=true that run concurrently: each step *)
(* between two awaits is atomic, and at an await the other may take over  *)

\* what the upstream API may serve to the two invocations
ConcurrentPool == {PostA1}

\* the cache before the two invocations
ConcurrentCache == CacheAfter(<<PostB1, PostA2>>)

\* the local state of the invocation that runs
Locals ==
    [pc |-> pc, forceRefresh |-> forceRefresh, cachedReviews |-> cachedReviews,
     page |-> page, after |-> after, sec |-> sec, allPosts |-> allPosts, posts |-> posts,
     reviews |-> reviews, thrown |-> thrown, response |-> response, calls |-> calls,
     outcome |-> outcome, delayed |-> delayed, dbCalls |-> dbCalls]

\* an invocation that has just entered GET with refresh=true
Entered ==
    [pc |-> "createClient", forceRefresh |-> TRUE, cachedReviews |-> NULL,
     page |-> 0, after |-> NULL, sec |-> 1, allPosts |-> <<>>, posts |-> <<>>,
     reviews |-> <<>>, thrown |-> NULL, response |-> NoResponse, calls |-> <<>>,
     outcome |-> NULL, delayed |-> FALSE, dbCalls |-> <<>>]

\* the invocation that runs waits at its await and the other goes on
Switch ==
    /\ other.pc # "responded"
    /\ other' = Locals
    /\ pc' = other.pc
    /\ forceRefresh' = other.forceRefresh
    /\ cachedReviews' = other.cachedReviews
    /\ page' = other.page
    /\ after' = other.after
    /\ sec' = other.sec
    /\ allPosts' = other.allPosts
    /\ posts' = other.posts
    /\ reviews' = other.reviews
    /\ thrown' = other.thrown
    /\ response' = other.response
    /\ calls' = other.calls
    /\ outcome' = other.outcome
    /\ delayed' = other.delayed
    /\ dbCalls' = other.dbCalls
    /\ UNCHANGED <<cache, credentials, invocations, prev, units>>
    /\ UNCHANGED dashboard

InitConcurrent ==
    /\ cache = ConcurrentCache
    /\ credentials = TRUE
    /\ invocations = 2
    /\ prev = NoRecord
    /\ pc = Entered.pc
    /\ forceRefresh = Entered.forceRefresh
    /\ cachedReviews = Entered.cachedReviews
    /\ page = Entered.page
    /\ after = Entered.after
    /\ sec = Entered.sec
    /\ allPosts = Entered.allPosts
    /\ posts = Entered.posts
    /\ reviews = Entered.reviews
    /\ thrown = Entered.thrown
    /\ response = Entered.response
    /\ calls = Entered.calls
    /\ outcome = Entered.outcome
    /\ delayed = Entered.delayed
    /\ dbCalls = Entered.dbCalls
    /\ other = Entered
    /\ units = <<>>
    /\ InitDashboard

NextConcurrent ==
    \/ Switch
    \/ CreateClient
    \/ GetToken
    \/ PrimaryPage(ConcurrentPool, MaxShared)
    \/ SecondarySearch(ConcurrentPool, MaxShared)
    \/ FetchReturn
    \/ Classify
    \/ CacheWrite

SpecConcurrent == InitConcurrent /\ [][NextConcurrent]_vars

-----------------------------------------------------------------------------
(* The classification of GET unit by unit: posts.map starts one async    *)
(* unit for each post, each unit waits at its await of analyzeSentiment, *)
(* the units resume in any order, and Promise.all joins them             *)

\* the value of a unit that has not resolved
Pending == [settled |-> FALSE]

\* what fetchRedditPosts may have returned
FanOutInputs == {RankedPosts(fetched) : fetched \in SeqsUpTo(PostPool \cup {PostE}, MaxRanked)}

\* mutant: the values are kept in the order in which the units resolve
SettleInArrivalOrder(values, index, value) ==
    LET free == CHOOSE k \in 1..Len(values) :
                    /\ values[k] = Pending
                    /\ \A j \in 1..(k - 1) : values[j] # Pending
    IN [values EXCEPT ![free] = value]

\* Promise.all keeps the value of a promise at the index of the promise
Settle(values, index, value) == [values EXCEPT ![index] = value]

\* posts.map(async (post, index) => ...): every unit runs up to its await
StartUnits ==
    /\ pc = "classify"
    /\ units' = [i \in 1..Len(posts) |-> Pending]
    /\ pc' = "settling"
    /\ UNCHANGED <<cache, credentials, invocations, forceRefresh, cachedReviews, page,
                   after, sec, allPosts, posts, reviews, thrown, response, calls, outcome,
                   delayed, dbCalls, prev, other>>
    /\ UNCHANGED dashboard

\* the unit of posts[index] resumes after its await and returns its
\* review, or throws; a rejection rejects the Promise.all at once
ResolveUnit(index) ==
    /\ pc = "settling"
    /\ units[index] = Pending
    /\ IF ClassificationThrows(<<posts[index]>>)
       THEN /\ Throw("Invalid time value")
            /\ UNCHANGED units
       ELSE /\ units' = Settle(units, index, Review(posts[index], index))
            /\ UNCHANGED <<pc, thrown, response>>
    /\ UNCHANGED <<cache, credentials, invocations, forceRefresh, cachedReviews, page,
                   after, sec, allPosts, posts, reviews, calls, outcome, delayed,
                   dbCalls, prev, other>>
    /\ UNCHANGED dashboard

\* const reviews = await Promise.all(...): every unit has resolved
JoinUnits ==
    /\ pc = "settling"
    /\ \A i \in 1..Len(units) : units[i] # Pending
    /\ reviews' = units
    /\ pc' = "upsert"
    /\ UNCHANGED <<cache, credentials, invocations, forceRefresh, cachedReviews, page,
                   after, sec, allPosts, posts, thrown, response, calls, outcome,
                   delayed, dbCalls, prev, other, units>>
    /\ UNCHANGED dashboard

InitFanOut ==
    /\ cache = <<>>
    /\ credentials = TRUE
    /\ pc = "classify"
    /\ invocations = 1
    /\ forceRefresh = TRUE
    /\ cachedReviews = NULL
    /\ page = 0
    /\ after = NULL
    /\ sec = Len(secondarySubreddits) + 1
    /\ allPosts = <<>>
    /\ posts \in FanOutInputs
    /\ reviews = <<>>
    /\ thrown = NULL
    /\ response = NoResponse
    /\ calls = <<>>
    /\ outcome = NULL
    /\ dbCalls = <<>>
    /\ prev = NoRecord
    /\ delayed = FALSE
    /\ other = NoOther
    /\ units = <<>>
    /\ InitDashboard

NextFanOut ==
    \/ StartUnits
    \/ \E index \in 1..Len(posts) : ResolveUnit(index)
    \/ JoinUnits

SpecFanOut == InitFanOut /\ [][NextFanOut]_vars

-----------------------------------------------------------------------------
(* The classification and the cache write of GET on their own, for posts *)
(* whose text is drawn from a vocabulary                                 *)

\* titles of posts
Titles ==
    {<<"B", "a", "t", "t", "e", "r", "y", " ", "i", "s", "s", "u", "e", "?">>, <<"M", "o", "t", "o", " ", "G", "5", " ", "b", "a", "t", "t", "e", "r", "y">>, <<"R", "a", "z", "r", " ", "c", "a", "m", "e", "r", "a", " ", "u", "p", "d", "a", "t", "e">>, <<"E", "d", "g", "e", " ", "4", "0", " ", "c", "a", "s", "e">>,
     <<"N", "e", "w", " ", "p", "h", "o", "n", "e">>, <<"S", "m", "a", "r", "t", " ", "h", "o", "m", "e", " ", "h", "u", "b", " ", "a", "u", "d", "i", "o">>, <<"G", "u", "i", "d", "e">>, <<>>}

\* phrases a body is made of
Phrases ==
    {<<"m", "y", " ", "b", "a", "t", "t", "e", "r", "y", " ", "i", "s", " ", "t", "e", "r", "r", "i", "b", "l", "e">>, <<"g", "r", "e", "a", "t", " ", "l", "o", "v", "e">>, <<"b", "a", "d", " ", "s", "l", "o", "w">>, <<"g", "o", "o", "d">>, <<"g", "r", "e", "a", "t", " ", "l", "o", "v", "e", " ", "i", "s", "s", "u", "e", "s">>,
     <<"c", "h", "a", "r", "g", "i", "n", "g", " ", "v", "i", "d", "e", "o">>,
     <<"t", "h", "i", "s", " ", "p", "h", "o", "n", "e", " ", "i", "s", " ", "g", "o", "o", "d", " ", "b", "u", "t", " ", "t", "h", "e", " ", "s", "c", "r", "e", "e", "n", " ", "i", "s", " ", "n", "o", "t", " ", "w", "h", "a", "t", " ", "i", " ", "e", "x", "p", "e", "c", "t", "e", "d">>}

\* the phrases of ps, each followed by a space but the last
RECURSIVE Join(_)
Join(ps) ==
    IF ps = <<>> THEN <<>>
    ELSE IF Len(ps) = 1 THEN ps[1]
    ELSE ps[1] \o <<" ">> \o Join(Tail(ps))

\* bodies of posts: at most MaxPhrases phrases
Bodies == {Join(ps) : ps \in SeqsUpTo(Phrases, MaxPhrases)}

\* a post of the upstream API with the given text
TextPost(id, title, selftext, subreddit) ==
    [id |-> id, title |-> title, selftext |-> selftext, subreddit |-> subreddit,
     ups |-> 10, num_comments |-> 2, permalink |-> "/r/motorola/x", created_utc |-> 60]

\* fetchRedditPosts has returned two posts of the same text from two channels
InitClassify ==
    /\ cache = <<>>
    /\ credentials = TRUE
    /\ pc = "classify"
    /\ invocations = 1
    /\ forceRefresh = TRUE
    /\ cachedReviews = NULL
    /\ page = 0
    /\ after = NULL
    /\ sec = Len(secondarySubreddits) + 1
    /\ allPosts = <<>>
    /\ \E title \in Titles, selftext \in Bodies :
          posts = <<TextPost("x", title, selftext, <<"m", "o", "t", "o", "r", "o", "l", "a">>),
                    TextPost("y", title, selftext, <<"A", "n", "d", "r", "o", "i", "d">>)>>
    /\ reviews = <<>>
    /\ thrown = NULL
    /\ response = NoResponse
    /\ calls = <<>>
    /\ outcome = NULL
    /\ dbCalls = <<>>
    /\ prev = NoRecord
    /\ delayed = FALSE
    /\ other = NoOther
    /\ units = <<>>
    /\ InitDashboard

NextClassify ==
    \/ Classify
    \/ CacheWrite

SpecClassify == InitClassify /\ [][NextClassify]_vars

-----------------------------------------------------------------------------
(* A session of the dashboard: the API endpoint answers each fetch with   *)
(* one of a few responses                                                 *)

\* the variables of the API handler
server == <<cache, credentials, pc, invocations, forceRefresh, cachedReviews, page, after,
            sec, allPosts, posts, reviews, thrown, response, calls, outcome, delayed,
            dbCalls, prev, other, units>>

\* a review as the API endpoint returns it
ApiReview(id, title, sentiment, date) ==
    [id |-> id, title |-> title, summary |-> <<"N", "o", " ", "d", "e", "s", "c", "r", "i", "p", "t", "i", "o", "n", " ", "a", "v", "a", "i", "l", "a", "b", "l", "e">>,
     category |-> "General", sentiment |-> sentiment, confidence |-> 40,
     createdAt |-> toISOString(date * 1000), hasQuestion |-> FALSE]

\* five reviews: of today a negative question, an older one of yesterday
\* and one of five days ago, and of today a negative review that asks
\* nothing and a question that is not negative
SmallList ==
    <<ApiReview(1, <<"H", "e", "l", "p", "?">>, "negative", StartOfDay(Now) + 3600),
      ApiReview(2, <<"M", "o", "t", "o">>, "positive", DaysBefore(StartOfDay(Now), 1) + 7200),
      ApiReview(3, <<"M", "o", "t", "o">>, "neutral", DaysBefore(StartOfDay(Now), 5)),
      ApiReview(4, <<"M", "o", "t", "o">>, "negative", StartOfDay(Now) + 3 * 3600),
      ApiReview(5, <<"H", "e", "l", "p", "?">>, "neutral", StartOfDay(Now) + 2 * 3600)>>

\* 130 reviews of today, seven of them questions
BigList ==
    [i \in 1..130 |->
        ApiReview(i, IF i <= 7 THEN <<"H", "e", "l", "p", "?">> ELSE <<"M", "o", "t", "o">>,
                  IF i % 2 = 0 THEN "positive" ELSE "neutral",
                  StartOfDay(Now) + i)]

\* what the endpoint may answer; FetchRejected stands for a fetch that rejects
FetchRejected == [status |-> -1, message |-> "Failed to fetch"]
ApiResponses ==
    {Success(SmallList), Success(BigList),
     CatchResponse("Failed to get Reddit access token"), FetchRejected}

\* the dates the calendar offers
SelectableDates == {DaysBefore(StartOfDay(Now), 5)}

\* the component renders its main view, with the controls
MainView == ~loading /\ error = NULL

\* mutant: the dashboard asks for a refresh
StartFetchForcing ==
    /\ loading' = TRUE
    /\ error' = NULL
    /\ apiRequests' = Append(apiRequests, "/api/reddit?refresh=true")
    /\ pending' = TRUE
    /\ UNCHANGED <<uiReviews, selectedDate, activeFilter, sortBy, sortOrder, currentPage,
                   actionablePage>>

\* fetchReviews up to its await of fetch("/api/reddit")
StartFetch ==
    /\ loading' = TRUE
    /\ error' = NULL
    /\ apiRequests' = Append(apiRequests, "/api/reddit")
    /\ pending' = TRUE
    /\ UNCHANGED <<uiReviews, selectedDate, activeFilter, sortBy, sortOrder, currentPage,
                   actionablePage>>

\* the effects of the first render: the page indices are set to 1 and
\* fetchReviews is called
Mount ==
    /\ apiRequests = <<>>
    /\ ~pending
    /\ StartFetch
    /\ UNCHANGED server

\* the Refresh button of the main view
ClickRefresh ==
    /\ MainView
    /\ Len(apiRequests) < MaxFetches
    /\ StartFetch
    /\ UNCHANGED server

\* the Try Again button of the error view
ClickTryAgain ==
    /\ ~loading
    /\ error # NULL
    /\ Len(apiRequests) < MaxFetches
    /\ StartFetch
    /\ UNCHANGED server

\* the message fetchReviews throws for an answer, NULL when it throws none
FetchError(answer) ==
    IF answer.status = 200 THEN NULL
    ELSE IF answer.status = -1 THEN answer.message
    ELSE answer.details

\* mutant: a failed fetch empties the reviews
FetchSettlesClearing(answer) ==
    /\ pending
    /\ IF FetchError(answer) = NULL
       THEN uiReviews' = enhancedReviews(answer.reviews) /\ UNCHANGED error
       ELSE error' = FetchError(answer) /\ uiReviews' = <<>>
    /\ loading' = FALSE
    /\ pending' = FALSE
    /\ UNCHANGED <<selectedDate, activeFilter, sortBy, sortOrder, currentPage,
                   actionablePage, apiRequests>>
    /\ UNCHANGED server

\* fetchReviews from the answer of the endpoint to its end
FetchSettles(answer) ==
    /\ pending
    /\ IF FetchError(answer) = NULL
       THEN uiReviews' = enhancedReviews(answer.reviews) /\ UNCHANGED error
       ELSE error' = FetchError(answer) /\ UNCHANGED uiReviews
    /\ loading' = FALSE
    /\ pending' = FALSE
    /\ UNCHANGED <<selectedDate, activeFilter, sortBy, sortOrder, currentPage,
                   actionablePage, apiRequests>>
    /\ UNCHANGED server

\* the endpoint answers the fetch with one of the responses
FetchResponse == \E answer \in ApiResponses : FetchSettles(answer)

\* the date handleQuickFilter selects for a quick filter
QuickFilterDate(days) == DaysBefore(Now, days)

handleQuickFilter(filter, days) ==
    /\ MainView
    /\ activeFilter' = filter
    /\ currentPage' = 1
    /\ actionablePage' = 1
    /\ selectedDate' = QuickFilterDate(days)
    /\ UNCHANGED <<uiReviews, loading, error, sortBy, sortOrder, pending, apiRequests>>
    /\ UNCHANGED server

\* mutant: selecting a date asks the endpoint again
handleDateSelectFetching(date) ==
    /\ MainView
    /\ selectedDate' = date
    /\ activeFilter' = "Custom"
    /\ currentPage' = 1
    /\ actionablePage' = 1
    /\ apiRequests' = Append(apiRequests, "/api/reddit")
    /\ loading' = TRUE
    /\ pending' = TRUE
    /\ UNCHANGED <<uiReviews, error, sortBy, sortOrder>>
    /\ UNCHANGED server

handleDateSelect(date) ==
    /\ MainView
    /\ selectedDate' = date
    /\ activeFilter' = "Custom"
    /\ currentPage' = 1
    /\ actionablePage' = 1
    /\ UNCHANGED <<uiReviews, loading, error, sortBy, sortOrder, pending, apiRequests>>
    /\ UNCHANGED server

\* a change of sortBy or sortOrder, followed by the effect that depends on
\* them: both page indices go back to 1
SortChange(key, order) ==
    /\ MainView
    /\ <<key, order>> # <<sortBy, sortOrder>>
    /\ sortBy' = key
    /\ sortOrder' = order
    /\ currentPage' = 1
    /\ actionablePage' = 1
    /\ UNCHANGED <<uiReviews, loading, error, selectedDate, activeFilter, pending,
                   apiRequests>>
    /\ UNCHANGED server

\* the Date and Sentiment buttons
SetSortBy(key) == SortChange(key, sortOrder)

\* the button that toggles the direction
ToggleSortOrder == SortChange(sortBy, IF sortOrder = "asc" THEN "desc" ELSE "asc")

\* the page a Previous button leads to, and the page a Next button leads to
PreviousTarget(index) == Max(1, index - 1)
NextTarget(index, total) == Min(total, index + 1)

\* a button of the pagination of the review list: Previous (disabled on
\* page 1), Next (disabled on the last page) or a numbered button
ReviewPageButton ==
    /\ MainView
    /\ showPagination
    /\ \/ currentPage # 1 /\ currentPage' = PreviousTarget(currentPage)
       \/ currentPage # totalPages /\ currentPage' = NextTarget(currentPage, totalPages)
       \/ \E pageNum \in PageNumbers(currentPage, totalPages) : currentPage' = pageNum
    /\ UNCHANGED <<uiReviews, loading, error, selectedDate, activeFilter, sortBy,
                   sortOrder, actionablePage, pending, apiRequests>>
    /\ UNCHANGED server

\* the same buttons of the actionable list
ActionablePageButton ==
    /\ MainView
    /\ showActionablePagination
    /\ \/ actionablePage # 1 /\ actionablePage' = PreviousTarget(actionablePage)
       \/ /\ actionablePage # totalActionablePages
          /\ actionablePage' = NextTarget(actionablePage, totalActionablePages)
       \/ \E pageNum \in PageNumbers(actionablePage, totalActionablePages) :
             actionablePage' = pageNum
    /\ UNCHANGED <<uiReviews, loading, error, selectedDate, activeFilter, sortBy,
                   sortOrder, currentPage, pending, apiRequests>>
    /\ UNCHANGED server

\* the API handler is idle while the session of the dashboard is explored
InitPage ==
    /\ cache = <<>>
    /\ credentials = TRUE
    /\ pc = "idle"
    /\ invocations = 0
    /\ forceRefresh = FALSE
    /\ cachedReviews = NULL
    /\ page = 0
    /\ after = NULL
    /\ sec = 1
    /\ allPosts = <<>>
    /\ posts = <<>>
    /\ reviews = <<>>
    /\ thrown = NULL
    /\ response = NoResponse
    /\ calls = <<>>
    /\ outcome = NULL
    /\ dbCalls = <<>>
    /\ prev = NoRecord
    /\ delayed = FALSE
    /\ other = NoOther
    /\ units = <<>>
    /\ InitDashboard

NextPage ==
    \/ Mount
    \/ ClickRefresh
    \/ ClickTryAgain
    \/ FetchResponse
    \/ \E k \in 1..Len(quickFilters) :
          handleQuickFilter(quickFilters[k].label, quickFilters[k].days)
    \/ \E date \in SelectableDates : handleDateSelect(date)
    \/ \E key \in {"date", "sentiment"} : SetSortBy(key)
    \/ ToggleSortOrder
    \/ ReviewPageButton
    \/ ActionablePageButton

SpecPage == InitPage /\ [][NextPage]_vars

-----------------------------------------------------------------------------
(* The dashboard and the API handler together: each fetch of the         *)
(* dashboard is one GET invocation, and its response settles the fetch   *)

\* searchParams.get("refresh") === "true" for the URL of a request
RefreshParam(url) == url = "/api/reddit?refresh=true"

\* the request of the pending fetch reaches the handler
SiteRequest ==
    /\ pending
    /\ invocations < Len(apiRequests)
    /\ Request(RefreshParam(Last(apiRequests)))

\* the response of the handler, or a failure of the network, settles the
\* pending fetch
SiteResponse ==
    /\ pc = "responded"
    /\ invocations = Len(apiRequests)
    /\ \E answer \in {response, FetchRejected} : FetchSettles(answer)

InitSite == Init

NextSite ==
    \/ Mount
    \/ ClickRefresh
    \/ ClickTryAgain
    \/ ToggleSortOrder
    \/ SiteRequest
    \/ SiteResponse
    \/ CreateClient
    \/ CacheRead
    \/ GetToken
    \/ PrimaryPage(GetPool, MaxPosts)
    \/ SecondarySearch(GetPool, MaxPosts)
    \/ FetchReturn
    \/ Classify
    \/ CacheWrite

SpecSite == InitSite /\ [][NextSite]_vars

-----------------------------------------------------------------------------
(* Properties of the GET handler, checked under Spec *)

\* the review at position index of a response carries the fields of the
\* cached row unchanged
CarriesRow(review, row, index) ==
    /\ review.id = index
    /\ review.title = row.title
    /\ review.summary = row.content
    /\ review.category = row.category
    /\ review.sentiment = row.sentiment
    /\ review.confidence = row.confidence
    /\ review.upvotes = row.upvotes
    /\ review.comments = row.comments
    /\ review.redditUrl = row.url
    /\ review.createdAt = row.created_at
    /\ review.subreddit = row.subreddit
    /\ review.hasQuestion = row.has_question

\* the current invocation read the cache and got at least one row
ServedFromCache ==
    /\ pc = "responded"
    /\ ~forceRefresh
    /\ ~(cachedReviews = NULL)
    /\ Len(cachedReviews) > 0

\* C1: a GET without refresh=true whose cache read succeeds with at least
\* one row responds with exactly those rows in the Review shape, issues no
\* upstream request (token, listing or search), performs no cache operation
\* but the read, and leaves the rows of the cache as it read them.
CacheHitReadOnly ==
    ServedFromCache =>
        /\ response.status = 200
        /\ Len(response.reviews) = Len(cachedReviews)
        /\ \A i \in 1..Len(cachedReviews) :
              CarriesRow(response.reviews[i], cachedReviews[i], i)
        /\ thrown = NULL
        /\ calls = <<>>
        /\ dbCalls = <<"select">>
        /\ Select(cache) = cachedReviews

\* a cache hit on several rows, with credentials that a refresh could use
CacheHitWitness ==
    /\ ServedFromCache
    /\ credentials
    /\ Len(cachedReviews) = 3
    /\ Len(response.reviews) = 3

\* the token stage of the pipeline was entered: a token request was issued,
\* or getRedditAccessToken found no credentials
TokenStageEntered ==
    IF credentials
    THEN calls # <<>> /\ calls[1].kind = "token"
    ELSE calls = <<>> /\ thrown = "Reddit credentials not configured"

\* the only upstream request was the token request, and it failed
TokenRefused == Len(calls) = 1 /\ calls[1].kind = "token" /\ outcome \in {"http", "throw"}

\* every request of fetchRedditPosts was issued: listing requests of the
\* primary channel, then one search in each secondary channel
FetchRan ==
    /\ Len(calls) >= 2 + Len(secondarySubreddits)
    /\ calls[2].kind = "listing"
    /\ \A k \in 1..Len(secondarySubreddits) :
          calls[Len(calls) - Len(secondarySubreddits) + k] =
              Call("search", secondarySubreddits[k], NULL)

\* C2: a GET with refresh=true, once its cache client exists, never reads
\* the cache and always runs the upstream pipeline, whatever the cache
\* holds: the token exchange, and after a successful exchange every request
\* of the fetch.
ForcedRefreshRunsPipeline ==
    forceRefresh =>
        /\ pc # "select"
        /\ cachedReviews = NULL
        /\ \A i \in 1..Len(dbCalls) : dbCalls[i] \notin {"select", "select failed"}
        /\ (pc = "responded" /\ thrown # "createClient failed") =>
              /\ TokenStageEntered
              /\ credentials => (TokenRefused \/ FetchRan)

\* a forced refresh that ran to a successful response while the cache held
\* rows (the failed upsert left them as they were)
ForcedRefreshWitness ==
    /\ forceRefresh
    /\ pc = "responded"
    /\ invocations = 1
    /\ Len(cache) = 3
    /\ dbCalls = <<"upsert failed">>
    /\ response.status = 200
    /\ FetchRan

\* the current invocation and the one before it were both made without the
\* refresh flag, and the current one has responded
TwoPlainCalls ==
    /\ pc = "responded"
    /\ ~forceRefresh
    /\ prev.invocation # 0
    /\ ~prev.forceRefresh

\* two responses carry the same posts in the same order, with the same
\* counts and the same classification labels
SameReviewSet(a, b) ==
    /\ Len(a.reviews) = Len(b.reviews)
    /\ \A i \in 1..Len(a.reviews) :
          /\ a.reviews[i].redditUrl = b.reviews[i].redditUrl
          /\ a.reviews[i].title = b.reviews[i].title
          /\ a.reviews[i].upvotes = b.reviews[i].upvotes
          /\ a.reviews[i].comments = b.reviews[i].comments
          /\ a.reviews[i].sentiment = b.reviews[i].sentiment
          /\ a.reviews[i].category = b.reviews[i].category

\* C3 as claimed, for every cache state before the first call: two calls
\* that both read the cache without error and both succeed return the same
\* reviews, and the second issues no upstream request.
CacheFirstIdempotentForEveryCache ==
    (/\ TwoPlainCalls
     /\ ~(prev.cachedReviews = NULL)
     /\ ~(cachedReviews = NULL)
     /\ prev.response.status = 200
     /\ response.status = 200) =>
        /\ SameReviewSet(response, prev.response)
        /\ calls = <<>>

\* C3, amended: when the cache read of both calls succeeds and the first
\* finds at least one row, the two calls return the same reviews and the
\* second issues no upstream request.
CacheFirstIdempotent ==
    (/\ TwoPlainCalls
     /\ ~(prev.cachedReviews = NULL)
     /\ Len(prev.cachedReviews) > 0
     /\ ~(cachedReviews = NULL)) =>
        /\ response.status = 200
        /\ response = prev.response
        /\ calls = <<>>

\* two consecutive calls served from a cache of one row
CacheFirstWitness ==
    /\ TwoPlainCalls
    /\ credentials
    /\ ~(prev.cachedReviews = NULL)
    /\ Len(prev.cachedReviews) = 1
    /\ ~(cachedReviews = NULL)
    /\ Len(response.reviews) = 1

\* the messages of the exceptions the refresh pipeline raises
PipelineErrors ==
    {"Reddit credentials not configured", "Failed to get Reddit access token",
     "fetch failed", "Invalid time value"}

\* the cache read of the current invocation returned an error or no row
CacheMiss ==
    /\ ~forceRefresh
    /\ dbCalls # <<>>
    /\ (cachedReviews = NULL \/ Len(cachedReviews) = 0)

\* C4: after a cache read that returned an error or zero rows the handler
\* is in the refresh pipeline; its response is the success of the pipeline
\* or the 500 of an exception the pipeline raised, never an error for the
\* failed read.
CacheMissFallsThrough ==
    CacheMiss =>
        /\ pc \in {"token", "primary", "secondary", "rank", "classify", "upsert",
                   "responded"}
        /\ pc = "responded" =>
              /\ TokenStageEntered
              /\ IF thrown = NULL
                 THEN response.status = 200 /\ FetchRan
                 ELSE thrown \in PipelineErrors

\* a read error, with rows in the cache, followed by a successful refresh
CacheReadErrorWitness ==
    /\ pc = "responded"
    /\ ~forceRefresh
    /\ dbCalls = <<"select failed", "upsert">>
    /\ Len(cache) = 3
    /\ response.status = 200
    /\ Len(response.reviews) = 1

\* the review at position index of a response is the classification of post
FreshReview(review, post, index) ==
    /\ review.id = index
    /\ review.title = post.title
    /\ review.upvotes = post.ups
    /\ review.comments = post.num_comments
    /\ review.subreddit = post.subreddit
    /\ review.sentiment = simpleAnalyzeSentiment(post.title, post.selftext).sentiment
    /\ review.confidence = simpleAnalyzeSentiment(post.title, post.selftext).confidence
    /\ review.category = categorizePost(post.title, post.selftext, post.subreddit)

\* C5: when the upsert of a refresh fails, the response is the success
\* response with the classification of every fetched post, not the 500.
WriteFailureNotSurfaced ==
    (pc = "responded" /\ dbCalls # <<>> /\ Last(dbCalls) = "upsert failed") =>
        /\ thrown = NULL
        /\ response.status = 200
        /\ Len(response.reviews) = Len(posts)
        /\ \A i \in 1..Len(posts) : FreshReview(response.reviews[i], posts[i], i)

\* a refresh whose upsert failed and that fetched a post
WriteFailureWitness ==
    /\ pc = "responded"
    /\ dbCalls # <<>>
    /\ Last(dbCalls) = "upsert failed"
    /\ cache = <<>>
    /\ Len(response.reviews) = 1

\* C6: a step of the token exchange that finds no credentials, or whose
\* request fails, ends the invocation with status 500: no request is made
\* but at most the one token request (none without credentials), no listing
\* or search request, and nothing is written to the cache; after a response
\* the invocation issues no further request.
TokenFailureAborts ==
    [][/\ (pc = "token" /\ (~credentials \/ outcome' \in {"http", "throw"})) =>
             /\ pc' = "responded"
             /\ response'.status = 500
             /\ Len(calls') <= 1
             /\ \A i \in 1..Len(calls') : calls'[i].kind = "token"
             /\ ~credentials => calls' = <<>>
             /\ cache' = cache
             /\ \A i \in 1..Len(dbCalls') : dbCalls'[i] \notin {"upsert", "upsert failed"}
       /\ pc = "responded" => (pc' = "createClient" \/ (calls' = calls /\ cache' = cache))
      ]_vars

\* a forced refresh ended by a non-success answer of the token endpoint,
\* with rows in the cache
TokenFailureWitness ==
    /\ pc = "responded"
    /\ forceRefresh
    /\ TokenRefused
    /\ outcome = "http"
    /\ thrown = "Failed to get Reddit access token"
    /\ Len(cache) = 3

\* the response is one of the two shapes, the 500 shape carrying message
HasResponseShape(r, message) ==
    IF message = NULL
    THEN r.status = 200 /\ DOMAIN r = {"status", "reviews"}
    ELSE r = [status |-> 500, error |-> "Failed to fetch Reddit data",
              details |-> message]

\* C7: the invocation has a response exactly when it has ended, the
\* response is never replaced within the invocation, it is the success shape
\* or the 500 shape, and every exception raised to GET by one of its steps
\* ends the invocation with the 500 shape carrying its message as details.
OneResponsePerInvocation ==
    /\ [](/\ (pc = "responded") <=> (response.status # 0)
          /\ pc = "responded" => HasResponseShape(response, thrown)
          /\ pc # "responded" => thrown = NULL)
    /\ [][/\ response.status # 0 => (response' = response \/ pc' = "createClient")
          /\ (thrown' # thrown /\ thrown' # NULL) =>
                /\ pc' = "responded"
                /\ HasResponseShape(response', thrown')
         ]_vars

\* an exception of the classification, after a complete fetch
ClassificationErrorWitness ==
    /\ pc = "responded"
    /\ thrown = "Invalid time value"
    /\ response.status = 500
    /\ response.details = "Invalid time value"
    /\ FetchRan

-----------------------------------------------------------------------------
(* Properties of fetchRedditPosts, checked under SpecFetch *)

\* the listing of the primary channel was requested first and the last four
\* requests are the searches of the four secondary channels, in their order
SearchesIssued ==
    /\ Len(calls) >= 1 + Len(secondarySubreddits)
    /\ calls[1] = Call("listing", primarySubreddit, NULL)
    /\ \A k \in 1..Len(secondarySubreddits) :
          calls[Len(calls) - Len(secondarySubreddits) + k] =
              Call("search", secondarySubreddits[k], NULL)

\* s is a prefix of t
IsPrefix(s, t) == Len(s) <= Len(t) /\ SubSeq(t, 1, Len(s)) = s

\* C8: whatever requests failed, fetchRedditPosts reaches its return with
\* no exception and with every secondary channel requested after the
\* primary one; a failed request leaves the accumulated posts as they were
\* and goes on to the next channel, and no step removes an accumulated post.
PartialFailureTolerated ==
    /\ [](pc \in {"rank", "classify"} => SearchesIssued /\ thrown = NULL)
    /\ [][/\ IsPrefix(allPosts, allPosts')
          /\ (calls' # calls /\ outcome' \in {"http", "throw"}) =>
                /\ allPosts' = allPosts
                /\ thrown' = NULL
                /\ pc' = IF Last(calls').channel = Last(secondarySubreddits)
                         THEN "rank" ELSE "secondary"
         ]_vars

\* the second search threw after two posts had been accumulated, and the
\* loop stands at the third channel
PartialFailureWitness ==
    /\ pc = "secondary"
    /\ sec = 3
    /\ outcome = "throw"
    /\ Len(calls) = 3
    /\ Len(allPosts) = 2

\* the last post of s that has the identifier id
LastInstance(s, id) ==
    s[CHOOSE i \in 1..Len(s) : s[i].id = id /\ \A j \in (i + 1)..Len(s) : s[j].id # id]

\* no identifier occurs twice in s
UniqueIds(s) == \A i, j \in 1..Len(s) : s[i].id = s[j].id => i = j

FromPrimaryChannel(post) ==
    [i \in 1..Len(post.subreddit) |-> LowerChar(post.subreddit[i])] = <<"m", "o", "t", "o", "r", "o", "l", "a">>

\* C10: in the output of fetchRedditPosts no post of another channel stands
\* in front of a post of the primary channel, whatever their engagement.
PrimaryFirst ==
    pc = "classify" =>
        \A i, j \in 1..Len(posts) :
            (i < j /\ FromPrimaryChannel(posts[j])) => FromPrimaryChannel(posts[i])

\* two posts of the primary channel, the subreddit of one written with a
\* capital, in front of a post of another channel with more upvotes and
\* comments than either
PrimaryFirstWitness ==
    /\ pc = "classify"
    /\ posts = <<PostD, PostA1, PostB1>>
    /\ PostB1.ups + PostB1.num_comments > PostD.ups + PostD.num_comments

-----------------------------------------------------------------------------
(* Properties of the secondary loop, checked under SpecFetch *)

\* the step makes a search request to a secondary channel
SearchStep == pc = "secondary" /\ Len(calls') = Len(calls) + 1

\* C19: when a search request is made to a secondary channel other than
\* the first, the fixed delay has run out since the search request before
\* it, however that request ended.
SecondaryRequestsPaced == [][SearchStep /\ sec > 1 => delayed]_vars

-----------------------------------------------------------------------------
(* Properties of the primary loop, checked under SpecPaging *)

\* the requests for a page of the primary listing made so far
ListingRequests == {k \in 1..Len(calls) : calls[k].kind = "listing"}

\* the step makes a request for a page of the primary listing
ListingStep == pc = "primary" /\ Len(calls') = Len(calls) + 1

\* C18: a refresh makes at most 8 requests for a page of the primary
\* listing; the first carries no cursor, and each later one carries the
\* cursor the page before it returned, the name of the last post fetched;
\* another request follows a page only if the page was answered with
\* success, returned a cursor and at least one post, and fewer than 8
\* requests were made; once the loop is left it is not entered again.
PrimaryPagingBounded ==
    /\ [](Cardinality(ListingRequests) <= pagesToFetch)
    /\ [][/\ ListingStep =>
                /\ Last(calls') = Call("listing", primarySubreddit, after)
                /\ (after = NULL) = (ListingRequests = {})
                /\ after # NULL => after = "t3_" \o Last(allPosts).id
                /\ pc' = "primary" =>
                      /\ outcome' = "ok"
                      /\ after' # NULL
                      /\ Len(allPosts') > Len(allPosts)
                      /\ after' = "t3_" \o Last(allPosts').id
                      /\ Cardinality(ListingRequests') < pagesToFetch
          /\ pc # "primary" => pc' # "primary" /\ ListingRequests' = ListingRequests
         ]_vars

\* the budget is used: eight requests were made, the last seven with the
\* cursor of the page before
PagingWitness ==
    /\ pc = "secondary"
    /\ Cardinality(ListingRequests) = 8
    /\ Len(calls) = 8
    /\ calls[1].after = NULL
    /\ \A k \in 2..8 : calls[k].after = "t3_d"
    /\ Len(allPosts) >= 7
-----------------------------------------------------------------------------
(* Properties of the classification, checked under SpecClassify *)

\* the labels of the rule list, in the order of the rules
RuleLabels ==
    <<"Moto G Series", "Moto Edge Series", "Moto Razr/Foldable", "Audio Products",
      "Smart Home", "Accessories", "Battery/Charging", "Camera", "Software/Updates">>

\* the lower-cased title and body of a post, as the classifiers read them
ContentOf(post) ==
    [i \in 1..(Len(post.title) + 1 + Len(post.selftext)) |->
        LowerChar(IF i <= Len(post.title) THEN post.title[i]
                  ELSE IF i = Len(post.title) + 1 THEN " "
                  ELSE post.selftext[i - Len(post.title) - 1])]

\* the pattern of the rule that assigns label matches the text of post
RuleMatches(label, post) ==
    \E k \in 1..Len(CategoryRules) :
        CategoryRules[k].label = label /\ match(ContentOf(post), CategoryRules[k].re)

\* the classification of the fetched posts has been computed
IsClassified == pc = "upsert" /\ Len(reviews) = Len(posts)

\* C11: the category of a classified post is the label of the earliest
\* rule, in the order of the rule list, whose pattern matches its
\* lower-cased title and body, whichever later rules match, and General
\* when no pattern matches; two posts of the same text get the same label.
FirstMatchWins ==
    IsClassified =>
        /\ \A i \in 1..Len(posts) :
              LET hits == {k \in 1..Len(RuleLabels) : RuleMatches(RuleLabels[k], posts[i])}
              IN reviews[i].category =
                     IF hits = {} THEN "General"
                     ELSE RuleLabels[CHOOSE k \in hits : \A j \in hits : k <= j]
        /\ \A i, j \in 1..Len(posts) :
              (posts[i].title = posts[j].title /\ posts[i].selftext = posts[j].selftext)
              => reviews[i].category = reviews[j].category

\* a post whose text matches the first, the seventh and the eighth rule
FirstMatchWitness ==
    /\ IsClassified
    /\ posts[1].title = <<"M", "o", "t", "o", " ", "G", "5", " ", "b", "a", "t", "t", "e", "r", "y">>
    /\ posts[1].selftext = <<"c", "h", "a", "r", "g", "i", "n", "g", " ", "v", "i", "d", "e", "o">>
    /\ RuleMatches("Battery/Charging", posts[1])
    /\ RuleMatches("Camera", posts[1])
    /\ reviews[1].category = "Moto G Series"

\* the number of the words of the list that occur in the text of post
Occurring(words, post) ==
    LET content == ContentOf(post)
    IN Cardinality({k \in 1..Len(words) : includes(content, words[k])})

\* C12: with P and N the numbers of positive and negative keywords that
\* occur in the text of a classified post, its sentiment is positive
\* exactly when P > N + 1, negative exactly when N > P + 1 and neutral
\* otherwise; it is one of the three labels, and two posts with the same
\* P and N have the same sentiment.
SentimentRule ==
    IsClassified =>
        LET P == [i \in 1..Len(posts) |-> Occurring(positiveWords, posts[i])]
            N == [i \in 1..Len(posts) |-> Occurring(negativeWords, posts[i])]
        IN /\ \A i \in 1..Len(posts) :
                 /\ reviews[i].sentiment \in {"positive", "neutral", "negative"}
                 /\ reviews[i].sentiment = "positive" <=> P[i] > N[i] + 1
                 /\ reviews[i].sentiment = "negative" <=> N[i] > P[i] + 1
           /\ \A i, j \in 1..Len(posts) :
                 (P[i] = P[j] /\ N[i] = N[j]) => reviews[i].sentiment = reviews[j].sentiment

\* two positive keywords against one negative: a margin of one is neutral
SentimentRuleWitness ==
    /\ IsClassified
    /\ posts[1].title = <<"N", "e", "w", " ", "p", "h", "o", "n", "e">>
    /\ posts[1].selftext = <<"g", "r", "e", "a", "t", " ", "l", "o", "v", "e", " ", "i", "s", "s", "u", "e", "s">>
    /\ Occurring(positiveWords, posts[1]) = 2
    /\ Occurring(negativeWords, posts[1]) = 1
    /\ reviews[1].sentiment = "neutral"

\* the first classified post is the post of the example: title "Battery
\* issue?", body "my battery is terrible", 10 upvotes and 2 comments
IsBatteryExample ==
    /\ IsClassified
    /\ posts[1].title = <<"B", "a", "t", "t", "e", "r", "y", " ", "i", "s", "s", "u", "e", "?">>
    /\ posts[1].selftext = <<"m", "y", " ", "b", "a", "t", "t", "e", "r", "y", " ", "i", "s", " ", "t", "e", "r", "r", "i", "b", "l", "e">>
    /\ posts[1].ups = 10
    /\ posts[1].num_comments = 2

\* C13 as claimed: the example post is classified as a question, with
\* sentiment negative and category Battery/Charging.
BatteryExampleNegative ==
    IsBatteryExample =>
        /\ reviews[1].hasQuestion
        /\ reviews[1].sentiment = "negative"
        /\ reviews[1].category = "Battery/Charging"

\* C13, amended: the example post is classified as a question, with
\* sentiment neutral (one negative keyword, no positive one) and category
\* Battery/Charging.
BatteryExampleNeutral ==
    IsBatteryExample =>
        /\ reviews[1].hasQuestion
        /\ reviews[1].sentiment = "neutral"
        /\ reviews[1].category = "Battery/Charging"

\* the example post, classified: "terrible" is its only keyword
BatteryExampleWitness ==
    /\ IsBatteryExample
    /\ Occurring(negativeWords, posts[1]) = 1
    /\ Occurring(positiveWords, posts[1]) = 0
    /\ reviews[1].confidence = 95

-----------------------------------------------------------------------------
(* Properties of the dashboard, checked under SpecPage *)

\* the main view shows a filtered list of 130 reviews
Has130Filtered == MainView /\ Len(uiReviews) >= 130 /\ Len(filteredReviews) = 130

\* C14: with 130 filtered reviews there are 3 pages; page 1 shows items
\* 1 to 51 of the filtered list and page 3 its items 103 to 130, 28 of
\* them; no button is numbered 4, and while the list has 130 reviews no
\* step leads from page 3 to a later page.
PaginationExample ==
    /\ [](Has130Filtered =>
            /\ totalPages = 3
            /\ showPagination
            /\ currentPage = 1 => paginatedReviews = SubSeq(filteredReviews, 1, 51)
            /\ currentPage = 3 =>
                  /\ paginatedReviews = SubSeq(filteredReviews, 103, 130)
                  /\ Len(paginatedReviews) = 28
            /\ 4 \notin PageNumbers(currentPage, totalPages))
    /\ [][(Has130Filtered /\ currentPage = 3 /\ Len(filteredReviews') = 130)
             => currentPage' <= 3]_vars

\* page 3 of 130 filtered reviews is shown
PaginationWitness ==
    /\ Has130Filtered
    /\ currentPage = 3
    /\ Len(paginatedReviews) = 28
    /\ paginatedReviews[1] = filteredReviews[103]

\* what the visitor chooses: filter, date, sort key, direction and pages
view == <<activeFilter, selectedDate, sortBy, sortOrder, currentPage, actionablePage>>

\* C17: a step that changes the filter, the date, the sort key, the
\* direction or a page index issues no request and leaves the fetched
\* reviews as they are; a step that issues a request issues one, changes
\* nothing of the view, and is the mount or a click on a button of a view
\* that is not loading; the fetched reviews change only when a fetch ends.
NoRoundTripOnViewChange ==
    [][/\ view' # view =>
             /\ apiRequests' = apiRequests
             /\ uiReviews' = uiReviews
             /\ UNCHANGED <<pending, loading, error>>
       /\ apiRequests' # apiRequests =>
             /\ apiRequests' = Append(apiRequests, "/api/reddit")
             /\ view' = view
             /\ uiReviews' = uiReviews
             /\ apiRequests = <<>> \/ ~loading
             /\ ~pending
       /\ uiReviews' # uiReviews => pending /\ ~pending' /\ apiRequests' = apiRequests
      ]_vars

\* after one request the visitor has chosen a filter, a sort key, a
\* direction and a page of each list
ViewChangeWitness ==
    /\ MainView
    /\ Len(apiRequests) = 1
    /\ Len(uiReviews) = 130
    /\ activeFilter = "Last 7 Days"
    /\ sortBy = "sentiment"
    /\ sortOrder = "asc"
    /\ currentPage = 3
    /\ actionablePage = 2

-----------------------------------------------------------------------------
(* Order of the upstream calls of one invocation, checked under Spec *)

\* the searches among the first k requests of the invocation
SearchesBefore(k) == {j \in 1..k : calls[j].kind = "search"}

\* the cache write was attempted
WriteAttempted == \E k \in 1..Len(dbCalls) : dbCalls[k] \in {"upsert", "upsert failed"}

\* every request of fetchRedditPosts has ended: the fourth search was made
FetchFinished ==
    /\ calls # <<>>
    /\ Last(calls).kind = "search"
    /\ Cardinality(SearchesBefore(Len(calls))) = 4

\* C20: the requests of an invocation are, in this order, the token
\* exchange, the pages of the primary listing, and the searches of MotoG,
\* Android, smartphones and Lenovo; a step issues at most one request and
\* ends with the outcome of that request, so that no request is issued
\* while another is in flight; the cache write is attempted only after the
\* fourth search, and a response of the refresh path is sent only after
\* the attempt.
UpstreamCallsSequential ==
    /\ [](/\ \A k \in 1..Len(calls) :
                /\ (calls[k].kind = "token") = (k = 1)
                /\ calls[k].kind = "listing" =>
                      calls[k - 1].kind \in {"token", "listing"}
                /\ calls[k].kind = "search" =>
                      /\ calls[k - 1].kind \in {"listing", "search"}
                      /\ calls[k].channel =
                            <<"MotoG", "Android", "smartphones", "Lenovo">>[
                                Cardinality(SearchesBefore(k))]
          /\ WriteAttempted => FetchFinished /\ pc = "responded"
          /\ pc = "upsert" => FetchFinished
          /\ (pc = "responded" /\ response.status = 200 /\ ~ServedFromCache) =>
                WriteAttempted)
    /\ [][/\ Len(calls') <= Len(calls) + 1
          /\ Len(calls') = Len(calls) + 1 =>
                /\ SubSeq(calls', 1, Len(calls)) = calls
                /\ outcome' \in {"ok", "http", "throw"}
          /\ WriteAttempted' /\ ~WriteAttempted => calls' = calls
         ]_vars

\* an invocation has made the token exchange, two requests for pages of
\* the listing and the four searches, written the cache and responded
SequentialWitness ==
    /\ pc = "responded"
    /\ response.status = 200
    /\ Last(dbCalls) = "upsert"
    /\ Len(calls) = 7
    /\ calls[2].kind = "listing" /\ calls[3].kind = "listing"
    /\ calls[4].channel = "MotoG" /\ calls[7].channel = "Lenovo"

-----------------------------------------------------------------------------
(* Properties of the stored data, checked under Spec *)

\* the confidences the classifier gives to the texts of the vocabulary
VocabularyConfidences ==
    {simpleAnalyzeSentiment(title, selftext).confidence :
        title \in Titles, selftext \in Bodies}

\* a row of the table satisfies the constraints of the data model
StoredRowValid(row) ==
    /\ row.sentiment \in {"positive", "neutral", "negative"}
    /\ row.confidence.den = 100
    /\ row.confidence.num \in 40..95
    /\ 0 <= row.confidence.num /\ row.confidence.num <= row.confidence.den
    /\ row.category \in {RuleLabels[k] : k \in 1..Len(RuleLabels)} \cup {"General"}

\* the invocation has responded from the refresh path
LivePath ==
    /\ pc = "responded"
    /\ response.status = 200
    /\ dbCalls # <<>>
    /\ Last(dbCalls) \in {"upsert", "upsert failed"}

\* C15: every row of the cache has one of the three sentiments, a stored
\* confidence k / 100 with k an integer of 40..95, hence within [0, 1], and
\* one of the ten categories; every review of a response of the refresh
\* path has a confidence within [0, 100]; the classifier gives every text
\* of the vocabulary a confidence of 40..95.
DataModelInvariant ==
    /\ \A i \in 1..Len(cache) : StoredRowValid(cache[i])
    /\ LivePath => \A i \in 1..Len(response.reviews) :
                      /\ response.reviews[i].confidence \in 0..100
                      /\ response.reviews[i].sentiment \in {"positive", "neutral", "negative"}
    /\ VocabularyConfidences \subseteq 40..95

\* a refresh has written a row to a cache that held three, one of them
\* with the confidence at its ceiling and one at its floor
DataModelWitness ==
    /\ LivePath
    /\ Last(dbCalls) = "upsert"
    /\ Len(response.reviews) = 1
    /\ Len(cache) = 3
    /\ \E i, j \in 1..Len(cache) :
          cache[i].confidence.num = 95 /\ cache[j].confidence.num = 40
    /\ {40, 95} \subseteq VocabularyConfidences
    /\ VocabularyConfidences # {40, 95}

\* the identifiers of the rows or posts of s
Ids(s) == {s[i].id : i \in 1..Len(s)}

\* row holds the classification of post
StoresPost(row, post) ==
    /\ row.id = post.id
    /\ row.title = post.title
    /\ row.content = post.selftext
    /\ row.upvotes = post.ups
    /\ row.comments = post.num_comments
    /\ row.sentiment = simpleAnalyzeSentiment(post.title, post.selftext).sentiment
    /\ row.confidence.num = simpleAnalyzeSentiment(post.title, post.selftext).confidence
    /\ row.category = categorizePost(post.title, post.selftext, post.subreddit)

\* the step is an upsert that succeeds
UpsertSucceeds == pc = "upsert" /\ dbCalls' = Append(dbCalls, "upsert")

\* C16: the cache never holds two rows of one identifier; the cache changes
\* only in an upsert that succeeds; after such an upsert the cache holds,
\* for every post the refresh fetched, one row with its new classification,
\* every row of another identifier as it was, and no other row; no step
\* removes the row of an identifier.
UpsertKeyedById ==
    /\ [](UniqueIds(cache))
    /\ [][/\ Ids(cache) \subseteq Ids(cache')
          /\ cache' # cache => UpsertSucceeds
          /\ UpsertSucceeds =>
                /\ Ids(cache') = Ids(cache) \cup Ids(posts)
                /\ \A i \in 1..Len(posts) : \E k \in 1..Len(cache') :
                      StoresPost(cache'[k], posts[i])
                /\ \A k \in 1..Len(cache) :
                      cache[k].id \notin Ids(posts) =>
                          \E n \in 1..Len(cache') : cache'[n] = cache[k]
         ]_vars

\* a refresh that fetched post a with 1 upvote has overwritten its row,
\* stored with 7 upvotes, in a cache of three rows
UpsertWitness ==
    /\ pc = "responded"
    /\ dbCalls # <<>> /\ Last(dbCalls) = "upsert"
    /\ invocations = 1
    /\ Ids(posts) = {"a"}
    /\ Ids(cache) = {"a", "b", "d"}
    /\ \E k \in 1..Len(cache) : cache[k].id = "a" /\ cache[k].upvotes = 1

-----------------------------------------------------------------------------
(* Properties of the filter and the ranking, checked under SpecFetch *)

\* the lower-cased text of a post
LowerText(post) ==
    [i \in 1..(Len(post.title) + 1 + Len(post.selftext)) |->
        LowerChar((post.title \o <<" ">> \o post.selftext)[i])]

\* the predicate as the claim words it: the channel is the primary one, or
\* the text holds motorola, moto or lenovo, or a product line is named
SatisfiesRelevance(post) ==
    LET text == LowerText(post)
    IN \/ FromPrimaryChannel(post)
       \/ \E word \in {<<"m", "o", "t", "o", "r", "o", "l", "a">>, <<"m", "o", "t", "o">>, <<"l", "e", "n", "o", "v", "o">>} : includes(text, word)
       \/ \E i \in 1..(Len(text) - 3) :
             \/ /\ SubSeq(text, i, i + 3) = <<"m", "o", "t", "o">>
                /\ \E j \in (i + 4)..Len(text) :
                      /\ \A k \in (i + 4)..(j - 1) : text[k] \in WhiteSpace
                      /\ text[j] = "g"
             \/ SubSeq(text, i, i + 3) \in {<<"e", "d", "g", "e">>, <<"r", "a", "z", "r">>}

\* identifiers of the fetched posts that satisfy the predicate
RelevantIds == {allPosts[i].id : i \in {k \in 1..Len(allPosts) : SatisfiesRelevance(allPosts[k])}}

\* C21: every post of the output of fetchRedditPosts satisfies the
\* relevance predicate, and when fewer than 990 identifiers satisfy it the
\* identifier of every fetched post that satisfies it is in the output.
RelevanceFilter ==
    pc = "classify" =>
        /\ \A k \in 1..Len(posts) : SatisfiesRelevance(posts[k])
        /\ Cardinality(RelevantIds) < 990 => RelevantIds = Ids(posts)

\* a post of another channel that names a product line is kept, one that
\* names nothing is dropped, and a post of the primary channel is kept
RelevanceWitness ==
    /\ pc = "classify"
    /\ allPosts = <<PostB2, PostD, PostB1>>
    /\ Ids(posts) = {"b", "d"}
    /\ ~SatisfiesRelevance(PostB2)
    /\ posts = <<PostD, PostB1>>

-----------------------------------------------------------------------------
(* Properties of the ranking and the truncation, checked under SpecRank *)

\* upvotes + comments
Engagement(post) == post.ups + post.num_comments

\* a ranks higher than b: a is of the primary channel and b is not, or
\* they are of the same tier and a has more upvotes + comments
RanksHigher(a, b) ==
    \/ FromPrimaryChannel(a) /\ ~FromPrimaryChannel(b)
    \/ /\ FromPrimaryChannel(a) = FromPrimaryChannel(b)
       /\ Engagement(a) > Engagement(b)

\* the posts that pass the filter and the deduplication and are not in the
\* output
CutPosts ==
    LET relevant == SelectSeq(allPosts, SatisfiesRelevance)
        kept == Ids(posts)
    IN {LastInstance(relevant, id) : id \in Ids(relevant) \ kept}

\* C22: the output of fetchRedditPosts has at most 990 posts; the posts of
\* the primary channel stand in one block and so do the others, and of two
\* neighbours of the same tier the earlier has at least the upvotes +
\* comments of the later, so that within a tier the posts are in
\* non-increasing order of upvotes + comments; and a post the truncation
\* cut ranks higher than no post kept.
EngagementOrderAndTruncation ==
    pc = "classify" =>
        LET tier == [i \in 1..Len(posts) |-> FromPrimaryChannel(posts[i])]
            score == [i \in 1..Len(posts) |-> Engagement(posts[i])]
        IN /\ Len(posts) <= 990
           /\ Len(posts) = Min(990, Cardinality(RelevantIds))
           /\ \A i \in 1..(Len(posts) - 1) :
                 /\ tier[i + 1] => tier[i]
                 /\ tier[i] = tier[i + 1] => score[i] >= score[i + 1]
           /\ \A cut \in CutPosts : \A k \in 1..Len(posts) : ~RanksHigher(cut, posts[k])

\* 992 posts passed the filter, 990 are kept, the posts of most engagement
\* have moved to the front of their tier, and the two posts that were cut
\* are the posts of another channel of least engagement
TruncationWitness ==
    /\ pc = "classify"
    /\ Len(allPosts) = 992
    /\ Len(posts) = 990
    /\ FromPrimaryChannel(posts[800]) /\ ~FromPrimaryChannel(posts[801])
    /\ posts[1] = FetchedPost(100) /\ posts[8] = FetchedPost(800)
    /\ posts[801] = FetchedPost(900)
    /\ CutPosts = {FetchedPost(991), FetchedPost(992)}

-----------------------------------------------------------------------------
(* Properties of concurrent refreshes, checked under SpecConcurrent *)

\* both invocations have responded
BothResponded == pc = "responded" /\ other.pc = "responded"

\* the invocation got its cache client and its token, and went on to fetch
WentUpstream(invocation) ==
    /\ Len(invocation.calls) >= 2
    /\ invocation.calls[1].kind = "token"
    /\ invocation.calls[2].kind = "listing"

\* the invocation ran the pipeline to its end: the four searches, the
\* cache write and a response of success
RanWholePipeline(invocation) ==
    /\ \A k \in 1..4 :
          invocation.calls[Len(invocation.calls) - 4 + k] =
              Call("search", <<"MotoG", "Android", "smartphones", "Lenovo">>[k], NULL)
    /\ invocation.thrown = NULL
    /\ Len(invocation.dbCalls) = 1
    /\ invocation.dbCalls[1] \in {"upsert", "upsert failed"}
    /\ invocation.response.status = 200
    /\ Len(invocation.response.reviews) = Len(invocation.posts)

\* table is before with one refresh that fetched data applied to it: one
\* row per identifier, the rows of the fetched posts with their new
\* classification, and the other rows as they were
IsSingleRefresh(table, before, data) ==
    /\ UniqueIds(table)
    /\ Ids(table) = Ids(before) \cup Ids(data)
    /\ \A i \in 1..Len(data) : \E k \in 1..Len(table) : StoresPost(table[k], data[i])
    /\ \A k \in 1..Len(before) :
          before[k].id \notin Ids(data) => \E n \in 1..Len(table) : table[n] = before[k]

\* C23: when two concurrent invocations with refresh=true have both
\* responded, each having got its token and accumulated the same posts,
\* then, however their steps were interleaved, both ran the whole
\* pipeline, attempted the cache write and responded with success, and if
\* a write succeeded the cache is the cache one refresh alone leaves;
\* otherwise it is the cache as it was.
ConcurrentRefreshesSafe ==
    (/\ BothResponded
     /\ WentUpstream(Locals) /\ WentUpstream(other)
     /\ allPosts = other.allPosts) =>
        /\ RanWholePipeline(Locals) /\ RanWholePipeline(other)
        /\ posts = other.posts
        /\ IF "upsert" \in {dbCalls[1], other.dbCalls[1]}
           THEN IsSingleRefresh(cache, ConcurrentCache, posts)
           ELSE cache = ConcurrentCache

\* both invocations fetched post a and wrote the cache, and the row of a,
\* stored with 7 upvotes, holds 1 upvote once
ConcurrentWitness ==
    /\ BothResponded
    /\ allPosts = <<PostA1>> /\ other.allPosts = <<PostA1>>
    /\ dbCalls = <<"upsert">> /\ other.dbCalls = <<"upsert">>
    /\ Len(cache) = 2
    /\ \E k \in 1..2 : cache[k].id = "a" /\ cache[k].upvotes = 1
    /\ \E k \in 1..2 : ConcurrentCache[k].id = "a" /\ ConcurrentCache[k].upvotes = 7

-----------------------------------------------------------------------------
(* Properties of the classification fan-out, checked under SpecFanOut *)

\* review describes post
Describes(review, post) ==
    /\ review.redditId = post.id
    /\ review.title = post.title
    /\ review.fullContent = post.selftext
    /\ review.subreddit = post.subreddit
    /\ review.upvotes = post.ups
    /\ review.comments = post.num_comments
    /\ review.sentiment = simpleAnalyzeSentiment(post.title, post.selftext).sentiment
    /\ review.category = categorizePost(post.title, post.selftext, post.subreddit)

\* C24: in whatever order the units resolve, the joint await yields one
\* review for each ranked post, review number i (from 0) describing ranked
\* post number i and carrying id i + 1, the same list the classification
\* taken in one step yields; a unit that resolves sets its own value from
\* its own post and index and changes no other value and nothing else of
\* the invocation or of the cache.
FanOutOrderIndependent ==
    /\ [](pc = "upsert" =>
            /\ Len(reviews) = Len(posts)
            /\ \A n \in 1..Len(reviews) :
                  reviews[n].id = n /\ Describes(reviews[n], posts[n])
            /\ reviews = Classified(posts))
    /\ [][(pc = "settling" /\ pc' = "settling") =>
            \E index \in 1..Len(posts) :
                /\ units[index] = Pending
                /\ units'[index] = Review(posts[index], index)
                /\ \A j \in 1..Len(units) : j # index => units'[j] = units[j]
                /\ UNCHANGED <<cache, posts, reviews, allPosts, response, thrown>>
         ]_vars

\* the units of three posts have resolved and were joined, and the reviews
\* stand in the order of the posts
FanOutWitness ==
    /\ pc = "upsert"
    /\ posts = <<PostD, PostA1, PostB1>>
    /\ reviews[1].redditId = "d" /\ reviews[2].redditId = "a" /\ reviews[3].redditId = "b"
    /\ reviews[3].id = 3

-----------------------------------------------------------------------------
(* Properties of the actionable list, checked under SpecPage *)

\* the identifiers of the reviews of s, in their order
IdsInOrder(s) == [i \in 1..Len(s) |-> s[i].id]

\* 2 for a question plus 1 for a negative sentiment
CompositeScore(review) ==
    (IF review.isQuestion THEN 2 ELSE 0) + (IF review.sentiment = "negative" THEN 1 ELSE 0)

\* listed holds exactly the reviews of filtered that are a question or
\* negative, each once, in non-increasing order of the composite score
IsActionableListOf(listed, filtered) ==
    LET wanted == SelectSeq(filtered,
                            LAMBDA review : review.isQuestion \/ review.sentiment = "negative")
    IN /\ Len(listed) = Len(wanted)
       /\ {listed[k] : k \in 1..Len(listed)} = {wanted[i] : i \in 1..Len(wanted)}
       /\ \A k \in 1..(Len(listed) - 1) :
             CompositeScore(listed[k]) >= CompositeScore(listed[k + 1])
       /\ \A k \in 1..Len(listed) : CompositeScore(listed[k]) \in 1..3

\* C25: the actionable list holds exactly the filtered reviews that are a
\* question or negative, each once, in non-increasing order of the
\* composite score: the negative questions, then the other questions, then
\* the other negative reviews.
ActionableList == MainView => IsActionableListOf(actionableReviews, filteredReviews)

\* of the reviews of today the filtered list shows the negative review
\* first, then the question, then the negative question, and the
\* actionable list shows them the other way round
ActionableWitness ==
    /\ MainView
    /\ Len(uiReviews) = 5
    /\ activeFilter = "Today"
    /\ IdsInOrder(filteredReviews) = <<4, 5, 1>>
    /\ IdsInOrder(actionableReviews) = <<1, 5, 4>>

-----------------------------------------------------------------------------
(* Properties of the confidence unit, checked under Spec *)

\* the invocation before this one responded from the refresh path
PrevLive ==
    /\ prev.invocation > 0
    /\ prev.response.status = 200
    /\ \/ prev.forceRefresh
       \/ prev.cachedReviews = NULL
       \/ Len(prev.cachedReviews) = 0

\* C26: a response from the cache carries for each row the stored
\* confidence as it is, which is the 0-100 value the classifier gives to
\* the text of the row over 100; a response of the refresh path carries
\* the 0-100 value of the classifier; and a post that a response of the
\* refresh path reports with confidence c is reported by the next response
\* from the cache with c / 100.
ConfidenceUnit ==
    /\ ServedFromCache =>
          /\ Len(response.reviews) = Len(cachedReviews)
          /\ \A i \in 1..Len(cachedReviews) :
                /\ response.reviews[i].confidence = cachedReviews[i].confidence
                /\ response.reviews[i].confidence.den = 100
                /\ response.reviews[i].confidence.num =
                       simpleAnalyzeSentiment(cachedReviews[i].title,
                                              cachedReviews[i].content).confidence
                /\ response.reviews[i].confidence.num <= response.reviews[i].confidence.den
    /\ LivePath =>
          \A i \in 1..Len(posts) :
              /\ response.reviews[i].confidence =
                     simpleAnalyzeSentiment(posts[i].title, posts[i].selftext).confidence
              /\ response.reviews[i].confidence \in 40..95
    /\ (ServedFromCache /\ PrevLive) =>
          \A i \in 1..Len(prev.response.reviews) : \A k \in 1..Len(response.reviews) :
              response.reviews[k].redditUrl = prev.response.reviews[i].redditUrl =>
                  response.reviews[k].confidence =
                      [num |-> prev.response.reviews[i].confidence, den |-> 100]

\* a refresh reported post a with confidence 40, and the next invocation
\* reports it from the cache with 40 / 100
ConfidenceWitness ==
    /\ ServedFromCache
    /\ PrevLive
    /\ Len(prev.response.reviews) = 1
    /\ prev.response.reviews[1].confidence = 40
    /\ \E k \in 1..Len(response.reviews) :
          /\ response.reviews[k].redditUrl = prev.response.reviews[1].redditUrl
          /\ response.reviews[k].confidence = [num |-> 40, den |-> 100]

-----------------------------------------------------------------------------
(* Properties of the page indices, checked under SpecPage *)

\* C27: in the main view the page index of the review list is within
\* 1..max(1, totalPages) and the page index of the actionable list within
\* 1..max(1, totalActionablePages), and a list that is not empty shows a
\* page that is not empty.
PageIndexInRange ==
    MainView =>
        /\ currentPage \in 1..Max(1, totalPages)
        /\ actionablePage \in 1..Max(1, totalActionablePages)
        /\ Len(filteredReviews) > 0 => Len(paginatedReviews) > 0
        /\ Len(actionableReviews) > 0 => Len(paginatedActionableReviews) > 0

-----------------------------------------------------------------------------
(* Properties of the dashboard and the handler together, checked under *)
(* SpecSite                                                            *)

\* the step makes an upstream request or attempts a cache write
GoesUpstreamOrWrites ==
    \/ Len(calls') > Len(calls)
    \/ /\ Len(dbCalls') > Len(dbCalls)
       /\ Last(dbCalls') \in {"upsert", "upsert failed"}

\* the invocation has read the cache with success and got a row
CacheReadable ==
    /\ dbCalls # <<>> /\ dbCalls[1] = "select"
    /\ ~(cachedReviews = NULL) /\ Len(cachedReviews) > 0

\* C28: every request of the dashboard is for /api/reddit with no refresh
\* flag, and the handler never runs with the refresh forced; an invocation
\* reads the cache before anything else; once its read has returned a row
\* no step makes an upstream request or attempts a cache write; and the
\* cache is written, and changes, only in an invocation whose read found
\* the cache empty or failed.
DashboardNeverForcesRefresh ==
    /\ [](/\ \A k \in 1..Len(apiRequests) : apiRequests[k] = "/api/reddit"
          /\ ~forceRefresh
          /\ calls # <<>> => dbCalls # <<>> /\ dbCalls[1] \in {"select", "select failed"}
          /\ CacheReadable => calls = <<>> /\ Len(dbCalls) = 1)
    /\ [][/\ CacheReadable => ~GoesUpstreamOrWrites
          /\ (GoesUpstreamOrWrites \/ cache' # cache) =>
                \/ dbCalls[1] = "select failed"
                \/ dbCalls[1] = "select" /\ cache = <<>>
         ]_vars

\* the dashboard has fetched twice, by the mount and by the Refresh button;
\* both times the handler answered from a cache of three rows, which is as
\* it was
NeverForcesWitness ==
    /\ MainView
    /\ Len(apiRequests) = 2
    /\ invocations = 2
    /\ ServedFromCache
    /\ prev.invocation = 1 /\ prev.response = response
    /\ calls = <<>>
    /\ dbCalls = <<"select">>
    /\ Len(cache) = 3
    /\ Len(uiReviews) = 3

-----------------------------------------------------------------------------
(* Properties of the fetch lifecycle of the dashboard, checked under *)
(* SpecPage                                                          *)

\* the lists a successful answer of the endpoint may bring
SuccessfulLists ==
    {enhancedReviews(answer.reviews) : answer \in {a \in ApiResponses : a.status = 200}}

\* C29: a request is in flight only while loading is true; a fetch starts
\* only when none is in flight, by the mount or from a view that is not
\* loading, and sets loading and clears the error; a fetch that ends sets
\* loading to false; one that fails sets the error message and leaves the
\* reviews as they were, and one that succeeds replaces the reviews with
\* the answer and leaves the error cleared.
FetchLifecycle ==
    /\ [](pending => loading /\ error = NULL)
    /\ [][/\ apiRequests' # apiRequests =>
                /\ ~pending
                /\ apiRequests = <<>> \/ ~loading
                /\ Len(apiRequests') = Len(apiRequests) + 1
                /\ pending' /\ loading' /\ error' = NULL
          /\ (pending /\ ~pending') =>
                /\ ~loading'
                /\ apiRequests' = apiRequests
                /\ \/ /\ error' \in {"Failed to get Reddit access token", "Failed to fetch"}
                      /\ uiReviews' = uiReviews
                   \/ /\ error' = NULL
                      /\ uiReviews' \in SuccessfulLists
          /\ loading' # loading => pending' # pending
         ]_vars

\* a refresh has failed, and the 130 reviews fetched before are still there
FetchLifecycleWitness ==
    /\ ~loading
    /\ ~pending
    /\ error = "Failed to fetch"
    /\ Len(apiRequests) = 2
    /\ Len(uiReviews) = 130

-----------------------------------------------------------------------------
(* Properties of the work of one invocation, checked under SpecBudget *)

\* the requests of the invocation of a kind, and its searches of a channel
CallsOfKind(kind) == {k \in 1..Len(calls) : calls[k].kind = kind}
SearchesOf(channel) == {k \in CallsOfKind("search") : calls[k].channel = channel}

\* the cache reads and the cache writes of the invocation
CacheReads == {k \in 1..Len(dbCalls) : dbCalls[k] \in {"select", "select failed"}}
CacheWrites == {k \in 1..Len(dbCalls) : dbCalls[k] \in {"upsert", "upsert failed"}}

\* fetchRedditPosts has returned
FetchReturned ==
    \/ pc \in {"classify", "upsert"}
    \/ pc = "responded" /\ (CacheWrites # {} \/ thrown = "Invalid time value")

====
